---- MODULE Spec2Model ----
(***************************************************************************)
(* The cross-runtime bridge of verifiers-ts: the Python wrapper            *)
(* TSEnvironmentWrapper (python-bridge/verifiers_ts_loader.py), the        *)
(* Node.js driver script it generates for every call, and the guest        *)
(* environment the driver runs.                                            *)
(*                                                                         *)
(* Text is a sequence of symbols.  A symbol is either one of the           *)
(* characters the code looks at ( { } [ ] , : " \ space newline, the       *)
(* digit 1 ) or a word: a non-empty run of other characters, which no      *)
(* operation of the bridge ever splits.                                    *)
(***************************************************************************)
EXTENDS Integers, Sequences, FiniteSets, TLC

\* ------------------------------------------------------------------ text

LBrace == "{"
RBrace == "}"
LBrack == "["
RBrack == "]"
Comma == ","
Colon == ":"
Quote == "\""
Backslash == "\\"
NL == "\n"
SP == " "
Digit == "1"

\* str.strip() and json's scanner skip these
Whitespace == {SP, NL}

Min(a, b) == IF a < b THEN a ELSE b

\* s[k:] with a 0-based k
SliceFrom(s, k) == SubSeq(s, k + 1, Len(s))

\* str.find(c): the 0-based index of the first c in s, -1 when there is none
Find(s, c) ==
    IF \E i \in 1..Len(s) : s[i] = c
    THEN (CHOOSE i \in 1..Len(s) : s[i] = c /\ \A j \in 1..(i - 1) : s[j] # c) - 1
    ELSE -1

\* str.strip()
Strip(s) ==
    IF \A i \in 1..Len(s) : s[i] \in Whitespace
    THEN <<>>
    ELSE LET first == CHOOSE i \in 1..Len(s) :
                          s[i] \notin Whitespace /\ \A j \in 1..(i - 1) : s[j] \in Whitespace
             last == CHOOSE i \in 1..Len(s) :
                          s[i] \notin Whitespace /\ \A j \in (i + 1)..Len(s) : s[j] \in Whitespace
         IN SubSeq(s, first, last)

\* str.startswith(c) for a one-character c
StartsWith(s, c) == Len(s) > 0 /\ s[1] = c

RECURSIVE SplitLines(_)
\* str.split("\n")
SplitLines(s) ==
    LET k == Find(s, NL)
    IN IF k = -1 THEN <<s>>
       ELSE <<SubSeq(s, 1, k)>> \o SplitLines(SliceFrom(s, k + 1))

\* ------------------------------------------------------------------ JSON
\* A JSON value is <<tag, payload>>:
\*   <<"num", digits>>  <<"str", text>>  <<"arr", <<v1, ..., vn>>>>
\*   <<"obj", << <<key1, v1>>, ..., <<keyn, vn>> >>>>   (keys are texts)
\*   <<"lit", <<word>>>> for null, true and false
\* and JavaScript's undefined is <<"undef", <<>>>>, which is no JSON value.

Num(d) == <<"num", d>>
Str(t) == <<"str", t>>
Arr(es) == <<"arr", es>>
Obj(ms) == <<"obj", ms>>
Lit(w) == <<"lit", <<w>>>>
Null == Lit("null")
True == Lit("true")
LiteralWords == {"null", "true", "false"}
Undefined == <<"undef", <<>>>>

Tag(v) == v[1]
Payload(v) == v[2]

RECURSIVE Escape(_)
\* the escapes JSON.stringify applies inside a string literal
Escape(t) ==
    IF t = <<>> THEN <<>>
    ELSE LET c == Head(t)
         IN (CASE c = NL -> <<Backslash, "n">>
               [] c = Quote -> <<Backslash, Quote>>
               [] c = Backslash -> <<Backslash, Backslash>>
               [] OTHER -> <<c>>) \o Escape(Tail(t))

QuoteText(t) == <<Quote>> \o Escape(t) \o <<Quote>>

RECURSIVE Stringify(_)
RECURSIVE StringifyElems(_)
RECURSIVE StringifyMembers(_)
\* JSON.stringify(v) for a JSON value v: no whitespace, members in order;
\* a member whose value is undefined is left out
Stringify(v) ==
    CASE Tag(v) = "num" -> Payload(v)
      [] Tag(v) = "lit" -> Payload(v)
      [] Tag(v) = "str" -> QuoteText(Payload(v))
      [] Tag(v) = "arr" -> <<LBrack>> \o StringifyElems(Payload(v)) \o <<RBrack>>
      [] Tag(v) = "obj" -> <<LBrace>> \o StringifyMembers(Payload(v)) \o <<RBrace>>

StringifyElems(es) ==
    IF es = <<>> THEN <<>>
    ELSE Stringify(Head(es))
         \o (IF Tail(es) = <<>> THEN <<>> ELSE <<Comma>> \o StringifyElems(Tail(es)))

StringifyMembers(ms) ==
    IF ms = <<>> THEN <<>>
    ELSE QuoteText(Head(ms)[1]) \o <<Colon>> \o Stringify(Head(ms)[2])
         \o (IF Tail(ms) = <<>> THEN <<>> ELSE <<Comma>> \o StringifyMembers(Tail(ms)))

\* dict.get(key, default)
Get(v, key, default) ==
    LET ms == Payload(v)
    IN IF \E i \in 1..Len(ms) : ms[i][1] = key
       THEN ms[CHOOSE i \in 1..Len(ms) : ms[i][1] = key][2]
       ELSE default

\* d[key] = val on the members of a dict: a repeated key keeps its place
Put(ms, key, val) ==
    IF \E i \in 1..Len(ms) : ms[i][1] = key
    THEN [i \in 1..Len(ms) |-> IF ms[i][1] = key THEN <<key, val>> ELSE ms[i]]
    ELSE Append(ms, <<key, val>>)

ParseFail == [ok |-> FALSE, v |-> <<>>, i |-> 0]
ParseOk(val, next) == [ok |-> TRUE, v |-> val, i |-> next]

RECURSIVE SkipWs(_, _)
SkipWs(s, i) ==
    IF i <= Len(s) /\ s[i] \in Whitespace THEN SkipWs(s, i + 1) ELSE i

RECURSIVE ParseStringBody(_, _, _)
\* the text of a string literal whose opening quote is before position i
ParseStringBody(s, i, acc) ==
    IF i > Len(s) THEN ParseFail
    ELSE CASE s[i] = Quote -> ParseOk(acc, i + 1)
           [] s[i] = NL -> ParseFail
           [] s[i] = Backslash ->
                IF i + 1 > Len(s) THEN ParseFail
                ELSE CASE s[i + 1] = "n" -> ParseStringBody(s, i + 2, Append(acc, NL))
                       [] s[i + 1] = Quote -> ParseStringBody(s, i + 2, Append(acc, Quote))
                       [] s[i + 1] = Backslash ->
                            ParseStringBody(s, i + 2, Append(acc, Backslash))
                       [] OTHER -> ParseFail
           [] OTHER -> ParseStringBody(s, i + 1, Append(acc, s[i]))

RECURSIVE ParseDigits(_, _, _)
ParseDigits(s, i, acc) ==
    IF i <= Len(s) /\ s[i] = Digit THEN ParseDigits(s, i + 1, Append(acc, Digit))
    ELSE ParseOk(acc, i)

RECURSIVE ParseValue(_, _)
RECURSIVE ParseElems(_, _, _)
RECURSIVE ParseMembers(_, _, _)
\* one JSON value starting at or after position i (json's raw_decode)
ParseValue(s, i0) ==
    LET i == SkipWs(s, i0)
    IN IF i > Len(s) THEN ParseFail
       ELSE CASE s[i] = LBrace ->
                   LET j == SkipWs(s, i + 1)
                   IN IF j <= Len(s) /\ s[j] = RBrace
                      THEN ParseOk(Obj(<<>>), j + 1)
                      ELSE ParseMembers(s, j, <<>>)
              [] s[i] = LBrack ->
                   LET j == SkipWs(s, i + 1)
                   IN IF j <= Len(s) /\ s[j] = RBrack
                      THEN ParseOk(Arr(<<>>), j + 1)
                      ELSE ParseElems(s, j, <<>>)
              [] s[i] = Quote ->
                   LET r == ParseStringBody(s, i + 1, <<>>)
                   IN IF r.ok THEN ParseOk(Str(r.v), r.i) ELSE ParseFail
              [] s[i] = Digit ->
                   LET r == ParseDigits(s, i, <<>>)
                   IN ParseOk(Num(r.v), r.i)
              [] s[i] \in LiteralWords -> ParseOk(Lit(s[i]), i + 1)
              [] OTHER -> ParseFail

ParseElems(s, i, acc) ==
    LET r == ParseValue(s, i)
    IN IF ~r.ok THEN ParseFail
       ELSE LET j == SkipWs(s, r.i)
            IN IF j > Len(s) THEN ParseFail
               ELSE CASE s[j] = Comma -> ParseElems(s, j + 1, Append(acc, r.v))
                      [] s[j] = RBrack -> ParseOk(Arr(Append(acc, r.v)), j + 1)
                      [] OTHER -> ParseFail

ParseMembers(s, i0, acc) ==
    LET i == SkipWs(s, i0)
    IN IF i > Len(s) \/ s[i] # Quote THEN ParseFail
       ELSE LET k == ParseStringBody(s, i + 1, <<>>)
            IN IF ~k.ok THEN ParseFail
               ELSE LET c == SkipWs(s, k.i)
                    IN IF c > Len(s) \/ s[c] # Colon THEN ParseFail
                       ELSE LET r == ParseValue(s, c + 1)
                            IN IF ~r.ok THEN ParseFail
                               ELSE LET j == SkipWs(s, r.i)
                                    IN IF j > Len(s) THEN ParseFail
                                       ELSE CASE s[j] = Comma ->
                                                   ParseMembers(s, j + 1, Put(acc, k.v, r.v))
                                              [] s[j] = RBrace ->
                                                   ParseOk(Obj(Put(acc, k.v, r.v)), j + 1)
                                              [] OTHER -> ParseFail

\* json.loads(s): one value, then nothing but whitespace; ok = FALSE stands
\* for json.JSONDecodeError
Loads(s) ==
    LET r == ParseValue(s, 1)
    IN IF r.ok /\ SkipWs(s, r.i) > Len(s)
       THEN [ok |-> TRUE, v |-> r.v]
       ELSE [ok |-> FALSE, v |-> <<>>]

\* ------------------------------------------------- the host: one call
\* What a call ends with: [kind, val].  kind "Return" carries the returned
\* value; every other kind is an exception: "NoPayload", "PayloadNotFound",
\* "DecodeError", "RemoteMethodFailed", "BuildFailed" are the RuntimeErrors
\* of the loader, told apart by their message; "BuildIncomplete" and
\* "IndexMissing" are its FileNotFoundErrors; "LaunchError" is the OSError
\* subprocess.run raises when the program cannot be started.  val is the
\* text or value the message carries.

Raw(t) == <<"raw", t>>
Outcome(k, x) == [kind |-> k, val |-> x]
NoOutcome == Outcome("None", Raw(<<>>))

ErrorKey == <<"error">>
StackKey == <<"stack">>
NameKey == <<"name">>
UnknownError == Str(<<"Unknown error">>)

\* stdout.find('{'), and stdout.find('[') only when there is no '{'
JsonStart(stdout) ==
    IF Find(stdout, LBrace) # -1 THEN Find(stdout, LBrace) ELSE Find(stdout, LBrack)

\* the position a scan for the first '{' or '[' stops at
FirstOfEither(stdout) ==
    IF Find(stdout, LBrace) = -1 THEN Find(stdout, LBrack)
    ELSE IF Find(stdout, LBrack) = -1 THEN Find(stdout, LBrace)
    ELSE Min(Find(stdout, LBrace), Find(stdout, LBrack))

\* the try block without its test for a blank stdout
OnExitZeroUnguarded(stdout, stderr) ==
    LET stripped == Strip(stdout)
        json_start == JsonStart(stripped)
    IN IF json_start = -1
       THEN [out |-> Outcome("PayloadNotFound", Raw(stripped)),
             json_str |-> <<>>, loads |-> FALSE]
       ELSE LET json_str == SliceFrom(stripped, json_start)
                data == Loads(json_str)
            IN [out |-> IF data.ok THEN Outcome("Return", data.v)
                        ELSE Outcome("DecodeError", Raw(json_str)),
                json_str |-> json_str, loads |-> TRUE]

\* What the try block of _call_ts_method does with a driver that exited 0:
\* [out, json_str, loads], where json_str is the text handed to json.loads
\* and loads tells whether json.loads was called on it.
OnExitZero(stdout, stderr) ==
    IF stdout = <<>> \/ Strip(stdout) = <<>>
    THEN [out |-> Outcome("NoPayload", Raw(stderr)), json_str |-> <<>>, loads |-> FALSE]
    ELSE LET stripped == Strip(stdout)
             json_start == JsonStart(stripped)
         IN IF json_start = -1
            THEN [out |-> Outcome("PayloadNotFound", Raw(stripped)),
                  json_str |-> <<>>, loads |-> FALSE]
            ELSE LET json_str == SliceFrom(stripped, json_start)
                     data == Loads(json_str)
                 IN [out |-> IF data.ok THEN Outcome("Return", data.v)
                             ELSE Outcome("DecodeError", Raw(json_str)),
                     json_str |-> json_str, loads |-> TRUE]

\* the two channels taken in the other order: e.stdout or e.stderr or ""
ErrorOutputStdoutFirst(stdout, stderr) ==
    IF stdout # <<>> THEN stdout ELSE stderr

\* e.stderr or e.stdout or ""
ErrorOutput(stdout, stderr) ==
    IF stderr # <<>> THEN stderr ELSE stdout

RECURSIVE ScanForward(_, _)
\* the scan taking the first line that starts with '{'
ScanForward(lines, error_output) ==
    IF lines = <<>> THEN Outcome("RemoteMethodFailed", Raw(error_output))
    ELSE LET line == Strip(Head(lines))
         IN IF StartsWith(line, LBrace)
            THEN LET error_data == Loads(line)
                 IN IF error_data.ok
                    THEN Outcome("RemoteMethodFailed",
                                 Get(error_data.v, ErrorKey, UnknownError))
                    ELSE Outcome("RemoteMethodFailed", Raw(error_output))
            ELSE ScanForward(Tail(lines), error_output)

RECURSIVE ScanReversed(_, _)
\* for line in reversed(lines): the first line that starts with '{' decides
ScanReversed(lines, error_output) ==
    IF lines = <<>> THEN Outcome("RemoteMethodFailed", Raw(error_output))
    ELSE LET line == Strip(lines[Len(lines)])
         IN IF StartsWith(line, LBrace)
            THEN LET error_data == Loads(line)
                 IN IF error_data.ok
                    THEN Outcome("RemoteMethodFailed",
                                 Get(error_data.v, ErrorKey, UnknownError))
                    ELSE Outcome("RemoteMethodFailed", Raw(error_output))
            ELSE ScanReversed(SubSeq(lines, 1, Len(lines) - 1), error_output)

\* the except subprocess.CalledProcessError branch of _call_ts_method
OnExitNonZero(stdout, stderr) ==
    LET error_output == ErrorOutput(stdout, stderr)
    IN ScanReversed(SplitLines(Strip(error_output)), error_output)

\* whether the scan hands a line to json.loads
ScanLoads(error_output) ==
    LET lines == SplitLines(Strip(error_output))
    IN \E i \in 1..Len(lines) : StartsWith(Strip(lines[i]), LBrace)

\* subprocess.run without check=True: the exit code is not looked at
OnDriverExitUnchecked(code, stdout, stderr) == OnExitZero(stdout, stderr)

\* subprocess.run(..., check=True) returned or raised CalledProcessError;
\* loads tells whether json.loads was called on text that came from stdout
OnDriverExit(code, stdout, stderr) ==
    IF code = 0 THEN OnExitZero(stdout, stderr)
    ELSE [out |-> OnExitNonZero(stdout, stderr), json_str |-> <<>>,
          loads |-> stderr = <<>> /\ ScanLoads(stdout)]

\* tuple(result): the elements of a list, the keys of a dict
TupleOf(v) ==
    IF Tag(v) = "arr" THEN <<"tuple", Payload(v)>>
    ELSE <<"tuple", [i \in 1..Len(Payload(v)) |-> Str(Payload(v)[i][1])]>>

\* what the caller of the method gets: rollout wraps the result in a tuple
CallerOutcome(method, out) ==
    IF method = "rollout" /\ out.kind = "Return"
    THEN Outcome("Return", TupleOf(out.val))
    ELSE out

\* ------------------------------------------- the result of evaluate
Apostrophe == "'"

TypeKey == <<"type">>
FunctionKey == <<"function">>
ArgumentsKey == <<"arguments">>
ToolCallsKey == <<"tool_calls">>
PromptKey == <<"prompt">>
CompletionKey == <<"completion">>
MetadataKey == <<"metadata">>

\* key in d
HasKey(ms, key) == \E i \in 1..Len(ms) : ms[i][1] = key

\* isinstance(v, dict), isinstance(v, list), isinstance(v, str)
IsDict(v) == Tag(v) = "obj"
IsList(v) == Tag(v) = "arr"
IsStr(v) == Tag(v) = "str"

\* bool(v): None, False, empty strings, lists and dicts are falsy
Truthy(v) == IF Tag(v) = "lit" THEN v = True ELSE Payload(v) # <<>>

RECURSIVE PyRepr(_)
RECURSIVE PyReprElems(_)
RECURSIVE PyReprItems(_)
\* repr(v) of a decoded value: strings in single quotes, ", " and ": "
PyRepr(v) ==
    CASE Tag(v) = "num" -> Payload(v)
      [] Tag(v) = "str" -> <<Apostrophe>> \o Payload(v) \o <<Apostrophe>>
      [] Tag(v) = "arr" -> <<LBrack>> \o PyReprElems(Payload(v)) \o <<RBrack>>
      [] Tag(v) = "obj" -> <<LBrace>> \o PyReprItems(Payload(v)) \o <<RBrace>>

PyReprElems(es) ==
    IF es = <<>> THEN <<>>
    ELSE PyRepr(Head(es))
         \o (IF Tail(es) = <<>> THEN <<>> ELSE <<Comma, SP>> \o PyReprElems(Tail(es)))

PyReprItems(ms) ==
    IF ms = <<>> THEN <<>>
    ELSE <<Apostrophe>> \o Head(ms)[1] \o <<Apostrophe, Colon, SP>> \o PyRepr(Head(ms)[2])
         \o (IF Tail(ms) = <<>> THEN <<>> ELSE <<Comma, SP>> \o PyReprItems(Tail(ms)))

\* str(v): a string is itself, anything else its repr
PyStr(v) == IF IsStr(v) THEN Payload(v) ELSE PyRepr(v)

RECURSIVE Dumps(_)
RECURSIVE DumpsElems(_)
RECURSIVE DumpsItems(_)
\* json.dumps(v) with its default separators ", " and ": "
Dumps(v) ==
    CASE Tag(v) = "num" -> Payload(v)
      [] Tag(v) = "lit" -> Payload(v)
      [] Tag(v) = "str" -> QuoteText(Payload(v))
      [] Tag(v) = "arr" -> <<LBrack>> \o DumpsElems(Payload(v)) \o <<RBrack>>
      [] Tag(v) = "obj" -> <<LBrace>> \o DumpsItems(Payload(v)) \o <<RBrace>>

DumpsElems(es) ==
    IF es = <<>> THEN <<>>
    ELSE Dumps(Head(es))
         \o (IF Tail(es) = <<>> THEN <<>> ELSE <<Comma, SP>> \o DumpsElems(Tail(es)))

DumpsItems(ms) ==
    IF ms = <<>> THEN <<>>
    ELSE QuoteText(Head(ms)[1]) \o <<Colon, SP>> \o Dumps(Head(ms)[2])
         \o (IF Tail(ms) = <<>> THEN <<>> ELSE <<Comma, SP>> \o DumpsItems(Tail(ms)))

\* a value that is no dict given no function entry at all
ToolCallDictUnnamed(tc) ==
    IF IsDict(tc) THEN Payload(tc) ELSE <<>>

\* tc_dict: dict(tc) for a dict, {"function": {"name": str(tc)}} otherwise
\* (a value decoded by json.loads never has a model_dump attribute)
ToolCallDict(tc) ==
    IF IsDict(tc) THEN Payload(tc)
    ELSE << <<FunctionKey, Obj(<< <<NameKey, Str(PyStr(tc))>> >>)>> >>

\* tc_dict["type"] = "function" unless it is a string already
NormalizeType(tc_dict) ==
    IF ~HasKey(tc_dict, TypeKey) \/ ~IsStr(Get(Obj(tc_dict), TypeKey, Undefined))
    THEN Put(tc_dict, TypeKey, Str(<<"function">>))
    ELSE tc_dict

\* func = tc_dict.get("function") or {}; a func that is no dict becomes
\* {"name": str(func)}
FunctionOf(tc_dict) ==
    LET func == Get(Obj(tc_dict), FunctionKey, Obj(<<>>))
    IN IF ~Truthy(func) THEN <<>>
       ELSE IF ~IsDict(func) THEN << <<NameKey, Str(PyStr(func))>> >>
       ELSE Payload(func)

\* func["name"] = "unknown_tool" unless it is a string already
NormalizeName(func) ==
    IF ~HasKey(func, NameKey) \/ ~IsStr(Get(Obj(func), NameKey, Undefined))
    THEN Put(func, NameKey, Str(<<"unknown_tool">>))
    ELSE func

\* the arguments encoded whether or not they are a string already
NormalizeArgumentsAlwaysEncoded(func) ==
    IF ~HasKey(func, ArgumentsKey)
    THEN Put(func, ArgumentsKey, Str(<<LBrace, RBrace>>))
    ELSE Put(func, ArgumentsKey, Str(Dumps(Get(Obj(func), ArgumentsKey, Undefined))))

\* func["arguments"]: "{}" when absent, json.dumps of it when not a string
NormalizeArguments(func) ==
    IF ~HasKey(func, ArgumentsKey)
    THEN Put(func, ArgumentsKey, Str(<<LBrace, RBrace>>))
    ELSE IF ~IsStr(Get(Obj(func), ArgumentsKey, Undefined))
    THEN Put(func, ArgumentsKey, Str(Dumps(Get(Obj(func), ArgumentsKey, Undefined))))
    ELSE func

\* the body of the loop over new_msg["tool_calls"]
NormalizeToolCall(tc) ==
    LET tc_dict == NormalizeType(ToolCallDict(tc))
        func == NormalizeArguments(NormalizeName(FunctionOf(tc_dict)))
    IN Obj(Put(tc_dict, FunctionKey, Obj(func)))

\* the body of the loop over messages
NormalizeMessage(msg) ==
    IF IsDict(msg) /\ HasKey(Payload(msg), ToolCallsKey)
                   /\ IsList(Get(msg, ToolCallsKey, Undefined))
    THEN LET tcs == Payload(Get(msg, ToolCallsKey, Undefined))
         IN Obj(Put(Payload(msg), ToolCallsKey,
                    Arr([i \in 1..Len(tcs) |-> NormalizeToolCall(tcs[i])])))
    ELSE msg

normalize_tool_calls_in_messages(messages) ==
    IF ~IsList(messages) THEN messages
    ELSE Arr([i \in 1..Len(Payload(messages)) |-> NormalizeMessage(Payload(messages)[i])])

\* data[key] = [normalize_tool_calls_in_messages(p) for p in data[key]]
\* when key is in data and data[key] is a list
NormalizeField(data, key) ==
    IF HasKey(data, key) /\ IsList(Get(Obj(data), key, Undefined))
    THEN LET seqs == Payload(Get(Obj(data), key, Undefined))
         IN Put(data, key,
                Arr([i \in 1..Len(seqs) |-> normalize_tool_calls_in_messages(seqs[i])]))
    ELSE data

\* data["metadata"] = GenerateMetadata(**data["metadata"]) when it is a dict
ConvertMetadata(data) ==
    IF HasKey(data, MetadataKey) /\ IsDict(Get(Obj(data), MetadataKey, Undefined))
    THEN Put(data, MetadataKey,
             <<"GenerateMetadata", Payload(Get(Obj(data), MetadataKey, Undefined))>>)
    ELSE data

\* if method_name == "evaluate" and GenerateOutputs is not None
Shapes(method_name, imported) == method_name = "evaluate" /\ imported

\* What _call_ts_method makes of the decoded data: for evaluate with the
\* result types imported, the normalized data wrapped in GenerateOutputs
\* (data.get on a list raises AttributeError); the data as decoded otherwise.
ShapeResult(method_name, imported, out) ==
    IF out.kind # "Return" \/ ~Shapes(method_name, imported) THEN out
    ELSE IF ~IsDict(out.val) THEN Outcome("AttributeError", Raw(<<"get">>))
    ELSE Outcome("Return",
                 <<"GenerateOutputs",
                   NormalizeField(NormalizeField(ConvertMetadata(Payload(out.val)),
                                                 PromptKey), CompletionKey)>>)

\* ------------------------------------------------------ the build step
\* The most builds one wrapper is followed through, and the most console or
\* stream writes the guest makes in one run of the driver.
MaxBuilds == 2
MaxEmit == 1

NoPath == "None"
DistPath == "dist"

\* What the build tool can do when run: launch = FALSE when the program
\* cannot be started; otherwise it exits with rc, having created dist (mkDist)
\* and dist/index.js (mkIndex), and having written out and err.
BuildRuns ==
    { b \in [launch : BOOLEAN, rc : {0, 1}, mkDist : BOOLEAN, mkIndex : BOOLEAN,
             out : {<<>>, <<"built">>}, err : {<<>>, <<"tsc", "error">>}] :
        /\ (b.mkIndex => b.mkDist)
        /\ (~b.launch => ~b.mkDist /\ b.rc = 1 /\ b.out = <<>> /\ b.err = <<>>) }

\* the CalledProcessError of a build that exited non-zero, with what the
\* build tool wrote; raised = FALSE when there is none
NoBuildError == [raised |-> FALSE, out |-> <<>>, err |-> <<>>]
CalledProcessError(b) == [raised |-> TRUE, out |-> b.out, err |-> b.err]

\* the message without the captured output: str(e) alone
BuildErrorMsgGeneric(b) == <<"CalledProcessError">>

\* e.stderr if e.stderr else e.stdout if e.stdout else str(e)
BuildErrorMsg(b) ==
    IF b.err # <<>> THEN b.err ELSE IF b.out # <<>> THEN b.out
    ELSE <<"CalledProcessError">>

\* the memo check dropped: every call resolves the path anew
NeverResolved(cp, dist) == FALSE

\* the memo trusted only while dist is still there
ResolvedWhileDistExists(cp, dist) == cp # NoPath /\ dist

\* if self._compiled_path: the memo is taken as it is, whatever is on disk
IsResolved(cp, dist) == cp # NoPath

\* the build's exit code trusted: dist/index.js is not looked for
EntryNotVerified(index, b) == TRUE

\* index_js_path.exists() after the build returned 0
EntryFound(index, b) == index \/ b.mkIndex

\* dist reused only when the entry file is in it
ReusesDistWithEntry(dist, index) == dist /\ index

\* if dist_path.exists(): nothing inside dist is looked at
ReusesDist(dist, index) == dist

\* _ensure_compiled on a wrapper whose _compiled_path is cp, with dist and
\* dist/index.js existing or not, and the build tool behaving as b:
\* [out, cp, dist, index, probes, built, error], where probes lists the filesystem
\* lookups and subprocess runs the call made, in order, and built tells
\* whether subprocess.run was called (built = "ok" when it returned 0 and
\* the entry file was there).
EnsureCompiled(cp, dist, index, b) ==
    IF IsResolved(cp, dist)
    THEN [out |-> Outcome("Return", Raw(<<cp>>)), cp |-> cp, dist |-> dist,
          index |-> index, probes |-> <<>>, built |-> "no", error |-> NoBuildError]
    ELSE IF ReusesDist(dist, index)
    THEN [out |-> Outcome("Return", Raw(<<DistPath>>)), cp |-> DistPath, dist |-> dist,
          index |-> index, probes |-> <<"exists dist">>, built |-> "no",
          error |-> NoBuildError]
    ELSE IF ~b.launch
    THEN [out |-> Outcome("LaunchError", Raw(<<"build">>)), cp |-> cp, dist |-> dist,
          index |-> index,
          probes |-> <<"exists dist", "exists pnpm-lock.yaml", "run build">>,
          built |-> "nolaunch", error |-> NoBuildError]
    ELSE IF b.rc # 0
    THEN [out |-> Outcome("BuildFailed", Raw(BuildErrorMsg(b))), cp |-> cp,
          dist |-> dist \/ b.mkDist, index |-> index \/ b.mkIndex,
          probes |-> <<"exists dist", "exists pnpm-lock.yaml", "run build">>,
          built |-> "failed", error |-> CalledProcessError(b)]
    ELSE IF ~EntryFound(index, b)
    THEN [out |-> Outcome("BuildIncomplete", Raw(b.out)), cp |-> cp,
          dist |-> dist \/ b.mkDist, index |-> FALSE,
          probes |-> <<"exists dist", "exists pnpm-lock.yaml", "run build",
                       "exists dist/index.js">>,
          built |-> "incomplete", error |-> NoBuildError]
    ELSE [out |-> Outcome("Return", Raw(<<DistPath>>)), cp |-> DistPath,
          dist |-> dist \/ b.mkDist, index |-> index \/ b.mkIndex,
          probes |-> <<"exists dist", "exists pnpm-lock.yaml", "run build",
                       "exists dist/index.js">>,
          built |-> "ok", error |-> NoBuildError]

\* ------------------------------------------------------------- the guest
\* a line that reads like the driver's error record
FakeRecord == <<LBrace, Quote, "error", Quote, Colon, Quote, "fake", Quote, RBrace>>

\* What guest code passes to console.* (after String() and join)
DiagTexts ==
    { <<LBrace, "note", RBrace>>,
      <<"note", NL>> \o FakeRecord }

\* What guest code (or a tool it runs) writes to a stream directly
StdoutTexts == { <<"banner", SP>>, <<NL>>, FakeRecord \o <<NL>> }
StderrTexts == { <<"banner", NL>>, <<LBrace, "oops", NL>> }

One == Num(<<Digit>>)

\* What the guest's method resolves to
GuestResults ==
    { One,
      Obj(<< <<<<"ok">>, One>> >>),
      Obj(<< <<<<"list">>, Arr(<<One>>)>> >>),
      Arr(<<One, One, One>>),
      Arr(<<Obj(<<>>), Str(<<"answer">>), Obj(<< <<<<"reward">>, One>> >>)>>),
      Arr(<<One, Obj(<<>>)>>),
      Undefined,
      <<"circular", <<>>>> }

Messages == { <<"boom">>, <<"boom", NL, LBrace, "x">> }

\* What guest code throws: an Error, a primitive such as a string, or
\* null/undefined (a promise rejected with no reason)
ErrorObject(m) == <<"Error", m>>
Primitive == <<"primitive", <<>>>>
Nullish == <<"nullish", <<>>>>
NoThrow == <<"none", <<>>>>
Thrown == { ErrorObject(m) : m \in Messages } \cup {Primitive, Nullish}

\* ------------------------------------------------------------ the state
VARIABLES
    compiled_path,  \* the wrapper's _compiled_path: NoPath or DistPath
    distExists,     \* env_path/dist exists
    indexExists,    \* env_path/dist/index.js exists
    tmpFiles,       \* the driver scripts in the temporary directory
    buildCount,     \* build processes this wrapper has started
    ensured,        \* the last _ensure_compiled call: [pre, ret, probes]
    pc,             \* "idle", or "waiting" inside subprocess.run of the driver
    method,         \* the method of the current or last call
    outcome,        \* what the last call ended with
    json_str,       \* the text the last call handed to json.loads
    loads,          \* whether the last call called json.loads on text of stdout
    nodeCount,      \* driver processes the current or last call launched
    dpc,            \* where the driver process is
    rc,             \* its exit code
    stdout,         \* what it has written to stdout
    stderr,         \* what it has written to stderr
    guestResult,    \* what the guest's method resolved to
    guestOut,       \* what guest code wrote to stdout directly
    diagLog,        \* the console calls guest code made: <<tag, text>>
    thrown,         \* what the driver's catch block caught
    emits,          \* console and stream writes of guest code in this run
    typesImported,  \* the module's GenerateOutputs is not None
    buildError,     \* the CalledProcessError the last _ensure_compiled caught
    threads,        \* the executor threads running evaluate on the wrapper
    host,           \* a call of one of the load functions: its inputs and result
    rolloutCall,    \* a call of rollout: its arguments and what it handed on
    sandboxRun      \* a run of sandbox_bridge.py: its stdin and what it did

\* the wrapper, the directory it points at, and the module it lives in
\* what is looked at before a wrapper exists, or apart from one
factoryVars == <<host, rolloutCall, sandboxRun>>
wrapperVars == <<compiled_path, distExists, indexExists, buildCount, ensured,
                 typesImported, buildError, threads, factoryVars>>
callVars == <<pc, method, outcome, json_str, loads, nodeCount, tmpFiles>>
driverVars == <<dpc, rc, stdout, stderr, guestResult, guestOut, diagLog, thrown, emits>>
vars == <<wrapperVars, callVars, driverVars>>

ScriptFile == "driver.mjs"

\* The executor threads that run evaluate's _call_ts_method at the same
\* time on one wrapper.  A thread is [pc, memo, writes, out]: where it is,
\* what it found when it read _compiled_path at the top of
\* _ensure_compiled, how often it assigned _compiled_path, and what its
\* call ended with.
NumThreads == 2
Threads == 1..NumThreads
IdleThread == [pc |-> "idle", memo |-> "unread", writes |-> 0, out |-> "None"]
NoRc == -1
Methods == {"rollout", "step"}

NoEnsure == [pre |-> NoPath, ret |-> NoPath, probes |-> <<>>]

\* no load function, no rollout and no sandbox bridge run is followed
NoLoad == [called |-> "none"]
NoRollout == [called |-> FALSE]
NoRun == [pc |-> "none"]

\* TSEnvironmentWrapper.__init__ on an environment directory that
\* load_ts_environment accepted; a dist of an earlier build may be there.
\* The module imported the host's result types; the calls followed from
\* here are rollout and step, which never look at them.
Init ==
    /\ typesImported = TRUE
    /\ buildError = NoBuildError
    /\ threads = [t \in Threads |-> IdleThread]
    /\ host = NoLoad
    /\ rolloutCall = NoRollout
    /\ sandboxRun = NoRun
    /\ compiled_path = NoPath
    /\ distExists \in BOOLEAN
    /\ indexExists \in BOOLEAN
    /\ (indexExists => distExists)
    /\ tmpFiles = {}
    /\ buildCount = 0
    /\ ensured = NoEnsure
    /\ pc = "idle"
    /\ method = "none"
    /\ outcome = NoOutcome
    /\ json_str = <<>>
    /\ loads = FALSE
    /\ nodeCount = 0
    /\ dpc = "none"
    /\ rc = NoRc
    /\ stdout = <<>>
    /\ stderr = <<>>
    /\ guestResult = NoThrow
    /\ guestOut = <<>>
    /\ diagLog = <<>>
    /\ thrown = NoThrow
    /\ emits = 0

\* Someone outside the bridge removes or rebuilds the build output
\* between two calls.
EnvChangesDist ==
    /\ pc = "idle"
    /\ \E d \in BOOLEAN, i \in BOOLEAN :
         /\ (i => d)
         /\ <<d, i>> # <<distExists, indexExists>>
         /\ distExists' = d
         /\ indexExists' = i
    /\ UNCHANGED <<compiled_path, buildCount, ensured, typesImported, buildError,
                   threads, factoryVars, callVars, driverVars>>

\* the wrapper and filesystem after _ensure_compiled returned or raised e
AfterEnsure(e) ==
    /\ compiled_path' = e.cp
    /\ distExists' = e.dist
    /\ indexExists' = e.index
    /\ buildCount' = IF e.built \in {"no", "nolaunch"} THEN buildCount ELSE buildCount + 1
    /\ ensured' = [pre |-> compiled_path,
                   ret |-> IF e.out.kind = "Return" THEN e.cp ELSE NoPath,
                   probes |-> e.probes]
    /\ buildError' = e.error
    /\ UNCHANGED <<typesImported, threads, factoryVars>>

\* the build tool is run only while the wrapper is followed
NeedsBuild == ~IsResolved(compiled_path, distExists) /\ ~distExists
CanEnsure == NeedsBuild => buildCount < MaxBuilds

\* what the build tool would do if it were run now: a call that finds the
\* memo or dist does not run it
NoBuild == [launch |-> FALSE, rc |-> 1, mkDist |-> FALSE, mkIndex |-> FALSE,
            out |-> <<>>, err |-> <<>>]
BuildChoices == IF NeedsBuild THEN BuildRuns ELSE {NoBuild}

ResetDriver ==
    /\ dpc' = "none"
    /\ rc' = NoRc
    /\ stdout' = <<>>
    /\ stderr' = <<>>
    /\ guestResult' = NoThrow
    /\ guestOut' = <<>>
    /\ diagLog' = <<>>
    /\ thrown' = NoThrow
    /\ emits' = 0

\* the script removed by the last statement of the try block only
UnlinkAtEndOfTry(files, out) ==
    IF out.kind = "Return" THEN files \ {ScriptFile} ELSE files

\* finally: script_path.unlink(), whatever the try block ended with
Finally(files, out) == files \ {ScriptFile}

\* the driver started on whatever path _ensure_compiled returned
IndexJsNotChecked(index) == TRUE

\* index_js_path.exists() in _call_ts_method
IndexJsExists(index) == index

\* A direct call of the compiling step.
EnsureCompiledCall ==
    /\ pc = "idle"
    /\ CanEnsure
    /\ \E b \in BuildChoices :
         LET e == EnsureCompiled(compiled_path, distExists, indexExists, b)
         IN /\ AfterEnsure(e)
            /\ outcome' = e.out
    /\ method' = "_ensure_compiled"
    /\ json_str' = <<>>
    /\ loads' = FALSE
    /\ nodeCount' = 0
    /\ ResetDriver
    /\ UNCHANGED <<pc, tmpFiles>>

\* _call_ts_method up to the point where it blocks in subprocess.run on the
\* driver: compile, look for dist/index.js, write the driver script, start
\* node.  nodeStarts = FALSE is subprocess.run raising because node cannot be
\* started; the finally clause then removes the script.
CallStart(m, b, nodeStarts) ==
    /\ pc = "idle"
    /\ CanEnsure
    /\ LET e == EnsureCompiled(compiled_path, distExists, indexExists, b)
       IN /\ AfterEnsure(e)
          /\ IF e.out.kind # "Return"
             THEN /\ outcome' = e.out
                  /\ nodeCount' = 0
                  /\ ResetDriver
                  /\ UNCHANGED <<pc, tmpFiles>>
             ELSE IF ~IndexJsExists(e.index)
             THEN /\ outcome' = Outcome("IndexMissing", Raw(<<DistPath, "index.js">>))
                  /\ nodeCount' = 0
                  /\ ResetDriver
                  /\ UNCHANGED <<pc, tmpFiles>>
             ELSE IF ~nodeStarts
             THEN /\ outcome' = Outcome("LaunchError", Raw(<<"node">>))
                  /\ nodeCount' = 1
                  /\ tmpFiles' = Finally(tmpFiles \cup {ScriptFile}, outcome')
                  /\ ResetDriver
                  /\ UNCHANGED pc
             ELSE /\ outcome' = NoOutcome
                  /\ nodeCount' = 1
                  /\ tmpFiles' = tmpFiles \cup {ScriptFile}
                  /\ pc' = "waiting"
                  /\ dpc' = "import"
                  /\ rc' = NoRc
                  /\ stdout' = <<>>
                  /\ stderr' = <<>>
                  /\ guestResult' = NoThrow
                  /\ guestOut' = <<>>
                  /\ diagLog' = <<>>
                  /\ thrown' = NoThrow
                  /\ emits' = 0
    /\ method' = m
    /\ json_str' = <<>>
    /\ loads' = FALSE

CallTsMethod ==
    \E m \in Methods, b \in BuildChoices, nodeStarts \in BOOLEAN : CallStart(m, b, nodeStarts)

\* ------------------------------------------------------------ the driver
\* process.stderr.write('[TAG] ' + args.map(a => String(a)).join(' ') + '\n')
ConsoleLine(tag, text) == <<LBrack, tag, RBrack, SP>> \o text \o <<NL>>

GuestRuns == dpc \in {"loadEnvironment", "method"}

\* console.* left as the runtime defines it: log and info write to stdout
ConsoleNotRedirected(tag, text) ==
    /\ pc = "waiting"
    /\ GuestRuns
    /\ emits < MaxEmit
    /\ stdout' = stdout \o text \o <<NL>>
    /\ diagLog' = Append(diagLog, <<tag, text>>)
    /\ emits' = emits + 1
    /\ UNCHANGED <<wrapperVars, callVars, dpc, rc, stderr, guestResult, guestOut, thrown>>

Console(tag, text) ==
    /\ pc = "waiting"
    /\ GuestRuns
    /\ emits < MaxEmit
    /\ stderr' = stderr \o ConsoleLine(tag, text)
    /\ diagLog' = Append(diagLog, <<tag, text>>)
    /\ emits' = emits + 1
    /\ UNCHANGED <<wrapperVars, callVars, dpc, rc, stdout, guestResult, guestOut, thrown>>

ConsoleWarn == \E text \in DiagTexts : Console("WARN", text)
ConsoleLog == \E text \in DiagTexts : Console("LOG", text)
ConsoleInfo == \E text \in DiagTexts : Console("INFO", text)
ConsoleError == \E text \in DiagTexts : Console("ERROR", text)

\* guest code writes to process.stdout without going through console
GuestWritesStdout ==
    /\ pc = "waiting"
    /\ GuestRuns
    /\ emits < MaxEmit
    /\ \E text \in StdoutTexts :
         /\ stdout' = stdout \o text
         /\ guestOut' = guestOut \o text
    /\ emits' = emits + 1
    /\ UNCHANGED <<wrapperVars, callVars, dpc, rc, stderr, guestResult, diagLog, thrown>>

\* guest code writes to process.stderr without going through console
GuestWritesStderr ==
    /\ pc = "waiting"
    /\ GuestRuns
    /\ emits < MaxEmit
    /\ \E text \in StderrTexts : stderr' = stderr \o text
    /\ emits' = emits + 1
    /\ UNCHANGED <<wrapperVars, callVars, dpc, rc, stdout, guestResult, guestOut,
                   diagLog, thrown>>

\* guest code ends the process itself: process.exit(code)
GuestExits ==
    /\ pc = "waiting"
    /\ GuestRuns
    /\ \E code \in {0, 1} : rc' = code
    /\ dpc' = "exited"
    /\ UNCHANGED <<wrapperVars, callVars, stdout, stderr, guestResult, guestOut,
                   diagLog, thrown, emits>>

ErrorStack(m) == <<"Error", Colon, SP>> \o m \o <<NL, SP, "at", SP, "driver">>

\* JSON.stringify({error: error.message, stack: error.stack, name: error.name}) + '\n'
\* a primitive has none of the three properties, and undefined members are left out
ErrorPayload(t) ==
    IF Tag(t) = "Error"
    THEN Stringify(Obj(<< <<ErrorKey, Str(Payload(t))>>,
                          <<StackKey, Str(ErrorStack(Payload(t)))>>,
                          <<NameKey, Str(<<"Error">>)>> >>)) \o <<NL>>
    ELSE Stringify(Obj(<<>>)) \o <<NL>>

\* what the runtime prints when the promise of the async function rejects
UnhandledRejection ==
    <<"TypeError", Colon, SP, "Cannot", SP, "read", SP, "properties", NL,
      SP, "at", SP, "driver", NL>>

\* The catch block.  Reading error.message of null or undefined throws
\* inside the block: the async function rejects, nothing handles it, and
\* the runtime prints the TypeError and exits with code 1.
Catch(t) ==
    /\ thrown' = t
    /\ stderr' = stderr \o (IF t = Nullish THEN UnhandledRejection ELSE ErrorPayload(t))
    /\ rc' = 1
    /\ dpc' = "exited"
    /\ UNCHANGED <<stdout, guestResult, guestOut, diagLog, emits>>

\* const module = await import(...)
DriverImport ==
    /\ pc = "waiting"
    /\ dpc = "import"
    /\ \/ /\ dpc' = "loadEnvironment"
          /\ UNCHANGED <<rc, stdout, stderr, guestResult, guestOut, diagLog, thrown, emits>>
       \/ \E m \in Messages : Catch(ErrorObject(m))
    /\ UNCHANGED <<wrapperVars, callVars>>

\* const env = await loadEnvironment(env_args)
DriverLoadEnvironment ==
    /\ pc = "waiting"
    /\ dpc = "loadEnvironment"
    /\ \/ /\ dpc' = "method"
          /\ UNCHANGED <<rc, stdout, stderr, guestResult, guestOut, diagLog, thrown, emits>>
       \/ \E t \in Thrown : Catch(t)
    /\ UNCHANGED <<wrapperVars, callVars>>

\* const result = await env.method(...args, kwargs)
DriverMethod ==
    /\ pc = "waiting"
    /\ dpc = "method"
    /\ \/ \E v \in GuestResults :
            /\ guestResult' = v
            /\ dpc' = "stringify"
            /\ UNCHANGED <<rc, stdout, stderr, guestOut, diagLog, thrown, emits>>
       \/ \E t \in Thrown : Catch(t)
    /\ UNCHANGED <<wrapperVars, callVars>>

\* const json = JSON.stringify(result); process.stdout.write(json); exit(0)
\* JSON.stringify throws on a circular structure, and gives undefined for
\* undefined, which process.stdout.write refuses with a TypeError.
DriverWriteResult ==
    /\ pc = "waiting"
    /\ dpc = "stringify"
    /\ IF Tag(guestResult) = "circular"
       THEN Catch(ErrorObject(<<"Converting", SP, "circular", SP, "structure">>))
       ELSE IF guestResult = Undefined
       THEN Catch(ErrorObject(<<"The", SP, "chunk", SP, "argument", SP, "must", SP, "be",
                                SP, "of", SP, "type", SP, "string">>))
       ELSE /\ stdout' = stdout \o Stringify(guestResult)
            /\ rc' = 0
            /\ dpc' = "exited"
            /\ UNCHANGED <<stderr, guestResult, guestOut, diagLog, thrown, emits>>
    /\ UNCHANGED <<wrapperVars, callVars>>

\* a loop around subprocess.run that runs the driver again after a failure
SurfacesSuccessOnly(out) == out.kind = "Return"

\* There is no loop around subprocess.run: whatever the try block ends with,
\* a return or a raise, leaves _call_ts_method.
Surfaces(out) == TRUE

\* subprocess.run returns or raises CalledProcessError; the rest of
\* _call_ts_method, its finally clause, and rollout's tuple(result)
CallFinish ==
    /\ pc = "waiting"
    /\ dpc = "exited"
    /\ LET r == OnDriverExit(rc, stdout, stderr)
       IN IF Surfaces(r.out)
          THEN /\ outcome' = CallerOutcome(method,
                                          ShapeResult(method, typesImported, r.out))
               /\ json_str' = r.json_str
               /\ loads' = r.loads
               /\ tmpFiles' = Finally(tmpFiles, r.out)
               /\ pc' = "idle"
               /\ dpc' = "none"
               /\ UNCHANGED <<nodeCount, rc, stdout, stderr, guestResult, guestOut,
                              diagLog, thrown, emits>>
          ELSE /\ nodeCount' = nodeCount + 1
               /\ ResetDriver
               /\ UNCHANGED <<pc, outcome, json_str, loads, tmpFiles>>
    /\ UNCHANGED <<wrapperVars, method>>

Next ==
    \/ EnvChangesDist
    \/ EnsureCompiledCall
    \/ CallTsMethod
    \/ ConsoleWarn
    \/ ConsoleLog
    \/ ConsoleInfo
    \/ ConsoleError
    \/ GuestWritesStdout
    \/ GuestWritesStderr
    \/ GuestExits
    \/ DriverImport
    \/ DriverLoadEnvironment
    \/ DriverMethod
    \/ DriverWriteResult
    \/ CallFinish

Spec == Init /\ [][Next]_vars

\* ------------------------------------------------- evaluate, end to end
\* What a guest's evaluate resolves to.  Tool calls as guests emit them:
EmptyArgs == Str(<<LBrace, RBrace>>)
NamedF == Obj(<< <<NameKey, Str(<<"f">>)>> >>)

ToolCalls ==
    { Obj(<< <<FunctionKey, NamedF>> >>),
      Obj(<< <<TypeKey, Str(<<"function">>)>>,
             <<FunctionKey, Obj(<< <<NameKey, Str(<<"f">>)>>,
                                   <<ArgumentsKey, EmptyArgs>> >>)>> >>),
      Obj(<< <<<<"id">>, Str(<<"c1">>)>>,
             <<TypeKey, Str(<<"function">>)>>,
             <<FunctionKey,
               Obj(<< <<NameKey, Str(<<"f">>)>>,
                      <<ArgumentsKey,
                        Str(<<LBrace, Quote, "a", Quote, Colon, Digit, RBrace>>)>> >>)>> >>),
      Obj(<< <<TypeKey, One>>,
             <<FunctionKey, Obj(<< <<NameKey, One>>,
                                   <<ArgumentsKey, Obj(<< <<<<"a">>, One>> >>)>> >>)>> >>),
      Obj(<< <<FunctionKey, Obj(<< <<NameKey, Str(<<"f">>)>>,
                                   <<ArgumentsKey, Arr(<<One, One>>)>> >>)>> >>),
      Obj(<< <<FunctionKey, Str(<<"f">>)>> >>),
      Obj(<< <<FunctionKey, Str(<<>>)>> >>),
      Obj(<<>>),
      Str(<<"x">>),
      One,
      Arr(<<One>>) }

PlainMessage == Obj(<< <<<<"role">>, Str(<<"user">>)>>, <<<<"content">>, Str(<<"hi">>)>> >>)

CallingMessage(tcs) ==
    Obj(<< <<<<"role">>, Str(<<"assistant">>)>>, <<ToolCallsKey, tcs>> >>)

EvalMessages ==
    { CallingMessage(Arr(<<tc>>)) : tc \in ToolCalls }
    \cup { PlainMessage,
           Str(<<"note">>),
           CallingMessage(Obj(<< <<FunctionKey, NamedF>> >>)),
           CallingMessage(Arr(<< Obj(<< <<FunctionKey, NamedF>> >>), Str(<<"x">>) >>)) }

EvalResults ==
    { Obj(<< <<PromptKey, Arr(<<Arr(<<PlainMessage>>)>>)>>,
             <<CompletionKey, Arr(<<Arr(<<m>>)>>)>> >>) : m \in EvalMessages }
    \cup { Obj(<< <<PromptKey, Arr(<<Arr(<<m, PlainMessage>>)>>)>>,
                  <<CompletionKey, Arr(<<Arr(<<PlainMessage>>)>>)>> >>) : m \in EvalMessages }
    \cup { Obj(<< <<PromptKey, Arr(<<Arr(<<PlainMessage>>), Arr(<<m>>)>>)>>,
                  <<CompletionKey, Arr(<<Arr(<<m>>), Arr(<<PlainMessage>>)>>)>>,
                  <<MetadataKey, Obj(<< <<<<"model">>, Str(<<"m1">>)>> >>)>> >>) :
             m \in EvalMessages }
    \cup { Obj(<< <<CompletionKey, Arr(<<Arr(<<m>>)>>)>> >>) : m \in EvalMessages }
    \cup { Obj(<<>>),
           Obj(<< <<PromptKey, Str(<<"p">>)>>,
                  <<CompletionKey, Arr(<<Str(<<"c">>)>>)>> >>),
           Arr(<<Obj(<<>>)>>) }

\* A built environment; the host's result types may or may not have been
\* importable when the module was loaded.
InitEval ==
    /\ typesImported \in BOOLEAN
    /\ buildError = NoBuildError
    /\ threads = [t \in Threads |-> IdleThread]
    /\ host = NoLoad
    /\ rolloutCall = NoRollout
    /\ sandboxRun = NoRun
    /\ compiled_path = NoPath
    /\ distExists = TRUE
    /\ indexExists = TRUE
    /\ tmpFiles = {}
    /\ buildCount = 0
    /\ ensured = NoEnsure
    /\ pc = "idle"
    /\ method = "none"
    /\ outcome = NoOutcome
    /\ json_str = <<>>
    /\ loads = FALSE
    /\ nodeCount = 0
    /\ dpc = "none"
    /\ rc = NoRc
    /\ stdout = <<>>
    /\ stderr = <<>>
    /\ guestResult = NoThrow
    /\ guestOut = <<>>
    /\ diagLog = <<>>
    /\ thrown = NoThrow
    /\ emits = 0

\* evaluate -> _call_ts_method("evaluate", ...), from the first line to the
\* return, for a driver run in which the guest writes nothing itself and its
\* evaluate resolves to v: the driver writes JSON.stringify(v) and exits 0.
EvaluateCall ==
    /\ pc = "idle"
    /\ \E v \in EvalResults :
         LET e == EnsureCompiled(compiled_path, distExists, indexExists, NoBuild)
             r == OnDriverExit(0, Stringify(v), <<>>)
         IN /\ AfterEnsure(e)
            /\ guestResult' = v
            /\ stdout' = Stringify(v)
            /\ outcome' = ShapeResult("evaluate", typesImported, r.out)
            /\ json_str' = r.json_str
            /\ loads' = r.loads
            /\ tmpFiles' = Finally(tmpFiles \cup {ScriptFile}, r.out)
    /\ method' = "evaluate"
    /\ nodeCount' = 1
    /\ rc' = 0
    /\ dpc' = "none"
    /\ stderr' = <<>>
    /\ guestOut' = <<>>
    /\ diagLog' = <<>>
    /\ thrown' = NoThrow
    /\ emits' = 0
    /\ UNCHANGED pc

NextEval == EvaluateCall

SpecEval == InitEval /\ [][NextEval]_vars

\* ------------------------------------- evaluate on several threads
\* evaluate hands _call_ts_method to the default executor; nothing in the
\* wrapper is locked, so the statements of concurrent calls interleave.
InitConc ==
    /\ typesImported = TRUE
    /\ buildError = NoBuildError
    /\ threads = [t \in Threads |-> IdleThread]
    /\ host = NoLoad
    /\ rolloutCall = NoRollout
    /\ sandboxRun = NoRun
    /\ compiled_path = NoPath
    /\ distExists \in BOOLEAN
    /\ indexExists \in BOOLEAN
    /\ (indexExists => distExists)
    /\ tmpFiles = {}
    /\ buildCount = 0
    /\ ensured = NoEnsure
    /\ pc = "idle"
    /\ method = "none"
    /\ outcome = NoOutcome
    /\ json_str = <<>>
    /\ loads = FALSE
    /\ nodeCount = 0
    /\ dpc = "none"
    /\ rc = NoRc
    /\ stdout = <<>>
    /\ stderr = <<>>
    /\ guestResult = NoThrow
    /\ guestOut = <<>>
    /\ diagLog = <<>>
    /\ thrown = NoThrow
    /\ emits = 0

\* what is not per thread and is written by no thread step
SequentialVars ==
    <<ensured, typesImported, buildError, pc, method, outcome, json_str, loads,
      nodeCount, driverVars, factoryVars>>

Goto(t, loc) == threads' = [threads EXCEPT ![t].pc = loc]
Ends(t, kind) == threads' = [threads EXCEPT ![t].pc = "done", ![t].out = kind]

\* loop.run_in_executor(None, self._call_ts_method, "evaluate", ...)
ThreadStart(t) ==
    /\ threads[t].pc = "idle"
    /\ Goto(t, "memo")
    /\ UNCHANGED <<compiled_path, distExists, indexExists, buildCount, tmpFiles,
                   SequentialVars>>

\* if self._compiled_path: return self._compiled_path
ThreadReadMemo(t) ==
    /\ threads[t].pc = "memo"
    /\ threads' = [threads EXCEPT
                     ![t].memo = IF compiled_path # NoPath THEN "set" ELSE "unset",
                     ![t].pc = IF IsResolved(compiled_path, distExists)
                               THEN "index" ELSE "dist"]
    /\ UNCHANGED <<compiled_path, distExists, indexExists, buildCount, tmpFiles,
                   SequentialVars>>

\* if dist_path.exists():
ThreadCheckDist(t) ==
    /\ threads[t].pc = "dist"
    /\ Goto(t, IF ReusesDist(distExists, indexExists) THEN "write" ELSE "build")
    /\ UNCHANGED <<compiled_path, distExists, indexExists, buildCount, tmpFiles,
                   SequentialVars>>

\* subprocess.run(build_cmd, check=True, ...)
ThreadBuild(t) ==
    /\ threads[t].pc = "build"
    /\ \E b \in BuildRuns :
         IF ~b.launch
         THEN /\ Ends(t, "LaunchError")
              /\ UNCHANGED <<distExists, indexExists, buildCount>>
         ELSE /\ distExists' = (distExists \/ b.mkDist)
              /\ indexExists' = (indexExists \/ b.mkIndex)
              /\ buildCount' = buildCount + 1
              /\ IF b.rc # 0 THEN Ends(t, "BuildFailed") ELSE Goto(t, "verify")
    /\ UNCHANGED <<compiled_path, tmpFiles, SequentialVars>>

\* if not index_js_path.exists(): raise FileNotFoundError
ThreadVerify(t) ==
    /\ threads[t].pc = "verify"
    /\ IF EntryFound(indexExists, NoBuild) THEN Goto(t, "write")
       ELSE Ends(t, "BuildIncomplete")
    /\ UNCHANGED <<compiled_path, distExists, indexExists, buildCount, tmpFiles,
                   SequentialVars>>

\* self._compiled_path = dist_path; return dist_path
ThreadWritePath(t) ==
    /\ threads[t].pc = "write"
    /\ compiled_path' = DistPath
    /\ threads' = [threads EXCEPT ![t].pc = "index", ![t].writes = @ + 1]
    /\ UNCHANGED <<distExists, indexExists, buildCount, tmpFiles, SequentialVars>>

\* if not index_js_path.exists(): raise FileNotFoundError
ThreadCheckIndex(t) ==
    /\ threads[t].pc = "index"
    /\ IF indexExists THEN Goto(t, "launch") ELSE Ends(t, "IndexMissing")
    /\ UNCHANGED <<compiled_path, distExists, indexExists, buildCount, tmpFiles,
                   SequentialVars>>

\* the driver script written to a file of its own, node started on it
ThreadLaunch(t) ==
    /\ threads[t].pc = "launch"
    /\ \E nodeStarts \in BOOLEAN :
         IF nodeStarts
         THEN /\ Goto(t, "waiting")
              /\ tmpFiles' = tmpFiles \cup {<<ScriptFile, t>>}
         ELSE /\ Ends(t, "LaunchError")
              /\ UNCHANGED tmpFiles
    /\ UNCHANGED <<compiled_path, distExists, indexExists, buildCount, SequentialVars>>

\* how a driver run can end: a result on stdout, or an error record
DriverEnds ==
    { [rc |-> 0, stdout |-> Stringify(Obj(<<>>)), stderr |-> <<>>],
      [rc |-> 0, stdout |-> <<>>, stderr |-> <<>>],
      [rc |-> 1, stdout |-> <<>>, stderr |-> ErrorPayload(ErrorObject(<<"boom">>))] }

\* subprocess.run returned or raised; the rest of the call and its finally
ThreadFinish(t) ==
    /\ threads[t].pc = "waiting"
    /\ \E d \in DriverEnds :
         Ends(t, ShapeResult("evaluate", typesImported,
                             OnDriverExit(d.rc, d.stdout, d.stderr).out).kind)
    /\ tmpFiles' = tmpFiles \ {<<ScriptFile, t>>}
    /\ UNCHANGED <<compiled_path, distExists, indexExists, buildCount, SequentialVars>>

NextConc ==
    \E t \in Threads :
       \/ ThreadStart(t)
       \/ ThreadReadMemo(t)
       \/ ThreadCheckDist(t)
       \/ ThreadBuild(t)
       \/ ThreadVerify(t)
       \/ ThreadWritePath(t)
       \/ ThreadCheckIndex(t)
       \/ ThreadLaunch(t)
       \/ ThreadFinish(t)

SpecConc == InitConc /\ [][NextConc]_vars

\* ------------------------------------------- loading an environment
\* The host's load_environment (verifiers/utils/env_utils.py), its
\* fallback _load_ts_environment, and the bridge's load_ts_environment.
Hyphen == "-"
Underscore == "_"
Slash == "/"
PyNone == "None"

\* str.replace(a, b) for one-character a and b
Replace(t, a, b) == [i \in 1..Len(t) |-> IF t[i] = a THEN b ELSE t[i]]

RECURSIVE LastSegment(_)
\* str.split("/")[-1]
LastSegment(t) ==
    LET k == Find(t, Slash)
    IN IF k = -1 THEN t ELSE LastSegment(SliceFrom(t, k + 1))

\* Environment identifiers, and the one module name they all lead to
MyHyphenEnv == <<"my", Hyphen, "env">>
MyUnderscoreEnv == <<"my", Underscore, "env">>
EnvIds == {MyHyphenEnv, MyUnderscoreEnv, <<"org", Slash, "my", Hyphen, "env">>}

\* Directories of environments: one that exists, a path that leads nowhere,
\* and the default of load_ts_environment, "./environments".  A root stands
\* for the directory it resolves to.
EnvsDir == "envs"
Nowhere == "nowhere"
DefaultEnvDir == "./environments"
RootExists(root) == root \in {EnvsDir, DefaultEnvDir}

PackageJson == "package.json"
IndexTs == "src/index.ts"

\* The environment directories that may be there: fs maps <<root, name>> to
\* [exists, files]
EnvDirs == {<<EnvsDir, MyHyphenEnv>>, <<EnvsDir, MyUnderscoreEnv>>,
            <<DefaultEnvDir, MyHyphenEnv>>}
DirStates ==
    {[exists |-> FALSE, files |-> {}]}
    \cup {[exists |-> TRUE, files |-> f] : f \in {{}, {PackageJson}, {IndexTs}}}

\* Path.exists() of root/name and of root/name/file
PathExists(fs, root, name) ==
    /\ <<root, name>> \in DOMAIN fs
    /\ fs[<<root, name>>].exists
FileExists(fs, root, name, file) ==
    /\ PathExists(fs, root, name)
    /\ file \in fs[<<root, name>>].files

\* An environment object: where it came from, its env_id and env_args, and
\* for a wrapper its env_path and _compiled_path.  What a load function ends
\* with is [kind, env]: kind "Return" with the environment, "ReturnNone",
\* or an exception, with the path it names in env.env_path.
\* "ModuleNotFound", "EntryPointMissing" and "NotInstalled" are ValueErrors,
\* told apart by their message.
NoEnv == [origin |-> "none", env_id |-> <<>>, env_path |-> <<PyNone, <<>>>>,
          env_args |-> <<>>, compiled_path |-> NoPath]
Loaded(k, e) == [kind |-> k, env |-> e]
Failed(k, root, name) == Loaded(k, [NoEnv EXCEPT !.env_path = <<root, name>>])
ValueErrors == {"ModuleNotFound", "EntryPointMissing", "NotInstalled"}

\* TSEnvironmentWrapper.__init__
TSEnvironmentWrapper(env_id, env_path, env_args) ==
    [origin |-> "bridge", env_id |-> env_id, env_path |-> env_path,
     env_args |-> env_args, compiled_path |-> NoPath]

\* a directory accepted whatever it holds
EntryPointNotRequired(fs, root, name) == TRUE

\* package_json.exists() or index_ts.exists()
HasEntryPoint(fs, root, name) ==
    \/ FileExists(fs, root, name, PackageJson)
    \/ FileExists(fs, root, name, IndexTs)

\* load_ts_environment(env_id, env_dir_path, **env_args)
load_ts_environment(fs, env_id, env_dir_path, env_args) ==
    IF ~PathExists(fs, env_dir_path, env_id)
    THEN Failed("ModuleNotFound", env_dir_path, env_id)
    ELSE IF ~HasEntryPoint(fs, env_dir_path, env_id)
    THEN Failed("EntryPointMissing", env_dir_path, env_id)
    ELSE Loaded("Return", TSEnvironmentWrapper(env_id, <<env_dir_path, env_id>>, env_args))

\* What the functions did, in order: <<what, root, name>>
Event(what, root, name) == <<what, root, name>>

\* resolved_dir of _load_ts_environment: env_dir_path when given, else
\* VERIFIERS_ENV_DIR_PATH, and None unless that directory exists
ResolvedDir(env_dir_path, env_var) ==
    IF env_dir_path # PyNone
    THEN (IF RootExists(env_dir_path) THEN env_dir_path ELSE PyNone)
    ELSE IF env_var # PyNone /\ RootExists(env_var) THEN env_var ELSE PyNone

\* search_names
SearchNames(env_id) == <<env_id, Replace(env_id, Hyphen, Underscore)>>

\* _load_ts_environment: [out, events]
LoadTsFallback(bridge, fs, env_id, env_dir_path, env_var, env_args) ==
    LET resolved_dir == ResolvedDir(env_dir_path, env_var)
        names == SearchNames(env_id)
        hits == {i \in 1..Len(names) :
                    resolved_dir # PyNone /\ PathExists(fs, resolved_dir, names[i])}
        imported == <<Event("import bridge", PyNone, <<>>)>>
    IN IF ~bridge
       THEN [out |-> Loaded("ReturnNone", NoEnv), events |-> imported]
       ELSE IF hits # {}
       THEN LET first == CHOOSE i \in hits : \A j \in hits : i <= j
            IN [out |-> load_ts_environment(fs, env_id, resolved_dir, env_args),
                events |-> imported
                           \o <<Event("found", resolved_dir, names[first]),
                                Event("load_ts_environment", resolved_dir, env_id)>>]
       ELSE IF env_dir_path = PyNone /\ resolved_dir = PyNone
       THEN [out |-> load_ts_environment(fs, env_id, DefaultEnvDir, env_args),
             events |-> Append(imported,
                               Event("load_ts_environment", DefaultEnvDir, env_id))]
       ELSE [out |-> Loaded("ReturnNone", NoEnv), events |-> imported]

\* What importing the native module and calling its load_environment does:
\* "absent" (ImportError), or one of
ModuleKinds == {"loads", "no load_environment", "load raises ImportError", "load raises"}
MyEnvModule == <<"my", Underscore, "env">>

\* importlib.import_module(module_name), then the module's load_environment
Native(modules, module_name) ==
    IF \E m \in modules : m[1] = module_name
    THEN (CHOOSE m \in modules : m[1] = module_name)[2]
    ELSE "absent"

\* the bridge asked after any failure of the native path
HandsOffOnAnyFailure(native) == native # "loads"

\* except ImportError: the native import, or the native load_environment,
\* raised ImportError
HandsOff(native) == native \in {"absent", "load raises ImportError"}

\* env.env_id = env.env_id or env_id; env.env_args = env.env_args or env_args
Fill(env, env_id, env_args) ==
    [env EXCEPT !.env_id = IF env.env_id # <<>> THEN env.env_id ELSE env_id,
                !.env_args = IF env.env_args # <<>> THEN env.env_args ELSE env_args]

NativeEnv == [NoEnv EXCEPT !.origin = "native"]

\* load_environment(env_id, env_dir_path, **env_args) of the host:
\* [out, events]
load_environment(modules, bridge, fs, env_id, env_dir_path, env_var, env_args) ==
    LET module_name == LastSegment(Replace(env_id, Hyphen, Underscore))
        native == Native(modules, module_name)
        tried == <<Event("import_module", PyNone, module_name)>>
    IN IF native = "loads"
       THEN [out |-> Loaded("Return", Fill(NativeEnv, env_id, env_args)),
             events |-> tried]
       ELSE IF HandsOff(native)
       THEN LET ts == LoadTsFallback(bridge, fs, env_id, env_dir_path, env_var, env_args)
            IN [out |-> IF ts.out.kind = "Return"
                        THEN Loaded("Return", Fill(ts.out.env, env_id, env_args))
                        ELSE IF ts.out.kind = "ReturnNone"
                        THEN Loaded("NotInstalled", NoEnv)
                        ELSE ts.out,
                events |-> tried \o ts.events]
       ELSE [out |-> Loaded("RuntimeError", NoEnv), events |-> tried]

\* every variable of the wrapper, its calls and its driver
bridgedVars ==
    <<compiled_path, distExists, indexExists, buildCount, ensured, typesImported,
      buildError, threads, callVars, driverVars>>

\* no wrapper has been made yet and nothing has run
NothingRun ==
    /\ typesImported = TRUE
    /\ buildError = NoBuildError
    /\ threads = [t \in Threads |-> IdleThread]
    /\ compiled_path = NoPath
    /\ distExists = FALSE
    /\ indexExists = FALSE
    /\ tmpFiles = {}
    /\ buildCount = 0
    /\ ensured = NoEnsure
    /\ pc = "idle"
    /\ method = "none"
    /\ outcome = NoOutcome
    /\ json_str = <<>>
    /\ loads = FALSE
    /\ nodeCount = 0
    /\ dpc = "none"
    /\ rc = NoRc
    /\ stdout = <<>>
    /\ stderr = <<>>
    /\ guestResult = NoThrow
    /\ guestOut = <<>>
    /\ diagLog = <<>>
    /\ thrown = NoThrow
    /\ emits = 0

EnvArgs == {<<>>, << <<<<"seed">>, One>> >>}

\* The machine before a load function is called: what is installed, what
\* is on disk, and the arguments of the call to come.
InitLoad ==
    /\ NothingRun
    /\ rolloutCall = NoRollout
    /\ sandboxRun = NoRun
    /\ \E fs \in [EnvDirs -> DirStates],
          modules \in {{}} \cup {{<<MyEnvModule, k>>} : k \in ModuleKinds},
          bridge \in BOOLEAN,
          env_id \in EnvIds,
          env_dir_path \in {PyNone, EnvsDir, Nowhere},
          env_var \in {PyNone, EnvsDir},
          env_args \in EnvArgs :
         host = [called |-> "none", fs |-> fs, modules |-> modules, bridge |-> bridge,
                 env_id |-> env_id, env_dir_path |-> env_dir_path, env_var |-> env_var,
                 env_args |-> env_args, out |-> Loaded("None", NoEnv), events |-> <<>>]

\* the host's load_environment(env_id, env_dir_path, **env_args)
HostLoadEnvironment ==
    /\ host.called = "none"
    /\ LET r == load_environment(host.modules, host.bridge, host.fs, host.env_id,
                                 host.env_dir_path, host.env_var, host.env_args)
       IN host' = [host EXCEPT !.called = "load_environment",
                               !.out = r.out, !.events = r.events]
    /\ UNCHANGED <<bridgedVars, rolloutCall, sandboxRun>>

\* the bridge's load_ts_environment(env_id, env_dir_path, **env_args), called
\* directly in a process that can import the bridge
LoadTsEnvironment ==
    /\ host.called = "none"
    /\ host.bridge
    /\ host.env_dir_path # PyNone
    /\ host' = [host EXCEPT !.called = "load_ts_environment",
                            !.out = load_ts_environment(host.fs, host.env_id,
                                                        host.env_dir_path, host.env_args)]
    /\ UNCHANGED <<bridgedVars, rolloutCall, sandboxRun>>

\* the bridge's load_environment(env_id, **env_args): load_ts_environment
\* with its default directory
BridgeLoadEnvironment ==
    /\ host.called = "none"
    /\ host.bridge
    /\ host' = [host EXCEPT !.called = "bridge.load_environment",
                            !.out = load_ts_environment(host.fs, host.env_id,
                                                        DefaultEnvDir, host.env_args)]
    /\ UNCHANGED <<bridgedVars, rolloutCall, sandboxRun>>

NextLoad ==
    \/ HostLoadEnvironment
    \/ LoadTsEnvironment
    \/ BridgeLoadEnvironment

SpecLoad == InitLoad /\ [][NextLoad]_vars

\* ----------------------------------------------------------- rollout
\* TSEnvironmentWrapper.rollout: from its arguments to the arguments the
\* guest's rollout receives in the driver.
ApiKeyKey == <<"api_key">>
BaseUrlKey == <<"base_url">>

\* an httpx.URL, as an OpenAI client holds under base_url
Url(t) == <<"url", t>>

\* str(v)
StrOf(v) == IF Tag(v) = "url" THEN Payload(v) ELSE PyStr(v)

\* a or b
Or(a, b) == IF Truthy(a) THEN a ELSE b

\* f(api_key=..., base_url=..., **kwargs): a key of kwargs that is also
\* given as a keyword is a TypeError at the call
KeywordRepeated(explicit, kwargs) ==
    \E i \in 1..Len(explicit), j \in 1..Len(kwargs) : explicit[i][1] = kwargs[j][1]

\* ...{json.dumps(args)}, {json.dumps(kwargs)} in the driver script: the
\* values the JavaScript literals evaluate to
Literal(v) == Loads(Dumps(v)).v

\* rollout(client, model, prompt, completion, answer, state, task, info,
\* example_id, sampling_args, **kwargs): [kind, received], where received
\* is the argument list of the guest's rollout
Rollout(client, positional, kwargs) ==
    LET api_key == Or(client.api_key, Get(Obj(kwargs), ApiKeyKey, Null))
        base_url == Or(client.base_url, Get(Obj(kwargs), BaseUrlKey, Null))
        args == [i \in 1..Len(positional) |->
                    IF i \in {5, 7, 9} THEN Or(positional[i], Obj(<<>>))
                    ELSE positional[i]]
        explicit == << <<ApiKeyKey, api_key>>,
                       <<BaseUrlKey,
                         IF Truthy(base_url) THEN Str(StrOf(base_url)) ELSE Null>> >>
    IN IF KeywordRepeated(explicit, kwargs)
       THEN [kind |-> "TypeError", received |-> <<>>]
       ELSE [kind |-> "Driver",
             received |-> Append(Payload(Literal(Arr(args))),
                                 Literal(Obj(explicit \o kwargs)))]

\* model, prompt, completion, answer, state, task, info, example_id,
\* sampling_args as the caller gives them
Positionals ==
    { <<Str(<<"m">>), Str(<<"question">>), Null, Str(<<"a">>), state, Str(<<"default">>),
        Null, One, Null>> : state \in {Null, Obj(<< <<<<"turn">>, One>> >>)} }

Clients ==
    [api_key : {Null, Str(<<>>), Str(<<"ck">>)},
     base_url : {Null, Url(<<"https", Colon, "cu">>)}]

\* **kwargs of a rollout call
Optional(key, val) == {<<>>, << <<key, val>> >>}
Kwargs ==
    { a \o b \o c : a \in Optional(ApiKeyKey, Str(<<"kk">>)),
                    b \in Optional(BaseUrlKey, Str(<<"https", Colon, "ku">>)),
                    c \in Optional(<<"seed">>, One) }

\* a wrapper and the arguments of the rollout call to come
InitRollout ==
    /\ NothingRun
    /\ host = NoLoad
    /\ sandboxRun = NoRun
    /\ \E client \in Clients, positional \in Positionals, kwargs \in Kwargs :
         rolloutCall = [called |-> FALSE, client |-> client, positional |-> positional,
                        kwargs |-> kwargs, kind |-> "None", received |-> <<>>]

\* rollout, up to the call of the guest's rollout in the driver
RolloutCall ==
    /\ ~rolloutCall.called
    /\ LET r == Rollout(rolloutCall.client, rolloutCall.positional, rolloutCall.kwargs)
       IN rolloutCall' = [rolloutCall EXCEPT !.called = TRUE, !.kind = r.kind,
                                             !.received = r.received]
    /\ UNCHANGED <<bridgedVars, host, sandboxRun>>

NextRollout == RolloutCall

SpecRollout == InitRollout /\ [][NextRollout]_vars

\* ------------------------------------------------- the sandbox bridge
\* python-bridge/sandbox_bridge.py: one process that reads a command from
\* stdin, performs it with the prime-sandboxes client and exits.
MethodKey == <<"method">>
ConfigKey == <<"config">>
SandboxIdKey == <<"sandbox_id">>
CommandKey == <<"command">>
ErrorTypeKey == <<"error_type">>

\* An exception is <<type name, message>>
Exc(type, msg) == <<type, msg>>

\* What a call ends with: [ok, val, ops]: the returned dict or the raised
\* exception, and the client operations performed on the way
Returns(v, ops) == [ok |-> TRUE, val |-> v, ops |-> ops]
Raises(type, msg, ops) == [ok |-> FALSE, val |-> Exc(type, msg), ops |-> ops]

NotInstalled == <<"prime-sandboxes is not installed">>

\* What the client does when asked: every operation succeeds ("ok", or
\* "quiet" where the command's output is empty), or the named one raises
ClientKinds == {"ok", "quiet", "create fails", "wait fails", "execute fails",
                "delete fails"}
ClientRaises(ops) == Raises("APIError", <<"request failed">>, ops)

\* create_sandbox(config)
create_sandbox(available, client, config) ==
    IF ~available THEN Raises("ImportError", NotInstalled, <<>>)
    ELSE IF ~IsDict(config)
    THEN Raises("AttributeError", <<"no attribute get">>, <<>>)
    ELSE IF client = "create fails" THEN ClientRaises(<<"create">>)
    ELSE Returns(Obj(<< <<<<"id">>, Str(<<"sb1">>)>> >>), <<"create">>)

\* result.stdout.strip() if result.stdout else ""
Stripped(t) == IF t # <<>> THEN Strip(t) ELSE <<>>

\* execute_command(sandbox_id, command)
execute_command(available, client, sandbox_id, command) ==
    IF ~available THEN Raises("ImportError", NotInstalled, <<>>)
    ELSE IF client = "wait fails" THEN ClientRaises(<<"wait_for_creation">>)
    ELSE IF client = "execute fails"
    THEN ClientRaises(<<"wait_for_creation", "execute_command">>)
    ELSE LET out == IF client = "quiet" THEN <<>> ELSE <<SP, "out", NL>>
         IN Returns(Obj(<< <<<<"stdout">>, Str(Stripped(out))>>,
                           <<<<"stderr">>, Str(Stripped(<<>>))>> >>),
                    <<"wait_for_creation", "execute_command">>)

\* delete_sandbox(sandbox_id)
delete_sandbox(available, client, sandbox_id) ==
    IF ~available THEN Raises("ImportError", NotInstalled, <<>>)
    ELSE IF client = "delete fails" THEN ClientRaises(<<"delete">>)
    ELSE Returns(Obj(<< <<<<"success">>, True>> >>), <<"delete">>)

\* an argument passed on to the client whatever it is
MissingNotChecked(v) == FALSE

\* not sandbox_id, not cmd
Missing(v) == ~Truthy(v)

\* handle_command(command)
handle_command(available, client, command) ==
    IF ~IsDict(command) THEN Raises("AttributeError", <<"no attribute get">>, <<>>)
    ELSE LET m == Get(command, MethodKey, Null)
             sandbox_id == Get(command, SandboxIdKey, Null)
             cmd == Get(command, CommandKey, Null)
         IN IF m = Str(<<"create">>)
            THEN create_sandbox(available, client, Get(command, ConfigKey, Obj(<<>>)))
            ELSE IF m = Str(<<"execute">>)
            THEN (IF Missing(sandbox_id) \/ Missing(cmd)
                  THEN Raises("ValueError",
                              <<"sandbox_id and command are required for execute method">>,
                              <<>>)
                  ELSE execute_command(available, client, sandbox_id, cmd))
            ELSE IF m = Str(<<"delete">>)
            THEN (IF Missing(sandbox_id)
                  THEN Raises("ValueError",
                              <<"sandbox_id is required for delete method">>, <<>>)
                  ELSE delete_sandbox(available, client, sandbox_id))
            ELSE Raises("ValueError", <<"Unknown method">>, <<>>)

\* the try block of main, up to the result
Handled(available, client, input_data) ==
    IF Strip(input_data) = <<>> THEN Raises("ValueError", <<"No input provided">>, <<>>)
    ELSE LET command == Loads(input_data)
         IN IF ~command.ok THEN Raises("JSONDecodeError", <<"Expecting value">>, <<>>)
            ELSE handle_command(available, client, command.v)

\* main(): what the process wrote and its exit code
Main(available, client, input_data) ==
    LET r == Handled(available, client, input_data)
    IN IF r.ok
       THEN [stdout |-> Dumps(r.val) \o <<NL>>, stderr |-> <<>>, rc |-> 0, ops |-> r.ops]
       ELSE [stdout |-> <<>>,
             stderr |-> Dumps(Obj(<< <<ErrorKey, Str(r.val[2])>>,
                                     <<ErrorTypeKey, Str(<<r.val[1]>>)>> >>)) \o <<NL>>,
             rc |-> 1, ops |-> r.ops]

SandboxId == Str(<<"sb1">>)
Method(m) == <<MethodKey, Str(<<m>>)>>

\* Commands a caller may send, well-formed or not
Commands ==
    { Obj(<<Method("create")>>),
      Obj(<<Method("create"), <<ConfigKey, Obj(<< <<NameKey, Str(<<"box">>)>> >>)>> >>),
      Obj(<<Method("create"), <<ConfigKey, One>> >>),
      Obj(<<Method("execute"), <<SandboxIdKey, SandboxId>>, <<CommandKey, Str(<<"ls">>)>> >>),
      Obj(<<Method("execute"), <<CommandKey, Str(<<"ls">>)>> >>),
      Obj(<<Method("execute"), <<SandboxIdKey, SandboxId>> >>),
      Obj(<<Method("execute"), <<SandboxIdKey, Str(<<>>)>>, <<CommandKey, Str(<<"ls">>)>> >>),
      Obj(<<Method("execute"), <<SandboxIdKey, SandboxId>>, <<CommandKey, Null>> >>),
      Obj(<<Method("delete"), <<SandboxIdKey, SandboxId>> >>),
      Obj(<<Method("delete")>>),
      Obj(<<Method("list")>>),
      Obj(<<>>),
      Arr(<<>>),
      One }

\* What may arrive on stdin
Stdins ==
    { <<>>, <<SP, NL>>, <<LBrace>>, <<"create">>,
      <<LBrace, Quote, "method", Quote, Colon, Quote, "delete", Quote>> }
    \cup { Dumps(c) \o <<NL>> : c \in Commands }
    \cup { Stringify(c) : c \in Commands }

\* the process started: stdin, whether prime_sandboxes could be imported,
\* and how the client will behave
InitSandbox ==
    /\ NothingRun
    /\ host = NoLoad
    /\ rolloutCall = NoRollout
    /\ \E input \in Stdins, available \in BOOLEAN, client \in ClientKinds :
         sandboxRun = [pc |-> "start", stdin |-> input, available |-> available,
                       client |-> client, stdout |-> <<>>, stderr |-> <<>>,
                       rc |-> NoRc, ops |-> <<>>]

\* python sandbox_bridge.py, from start to exit
SandboxMain ==
    /\ sandboxRun.pc = "start"
    /\ LET r == Main(sandboxRun.available, sandboxRun.client, sandboxRun.stdin)
       IN sandboxRun' = [sandboxRun EXCEPT !.pc = "exited", !.stdout = r.stdout,
                                           !.stderr = r.stderr, !.rc = r.rc,
                                           !.ops = r.ops]
    /\ UNCHANGED <<bridgedVars, host, rolloutCall>>

NextSandbox == SandboxMain

SpecSandbox == InitSandbox /\ [][NextSandbox]_vars

TypeOK ==
    /\ compiled_path \in {NoPath, DistPath}
    /\ (indexExists => distExists)
    /\ buildCount \in 0..MaxBuilds
    /\ emits <= MaxEmit

\* ------------------------------------------------------------- the claims
\* a call of _call_ts_method (directly or through rollout) has ended and its
\* driver exited
CallEnded == pc = "idle" /\ method \in Methods /\ rc # NoRc

HasStart(t) == Find(t, LBrace) # -1 \/ Find(t, LBrack) # -1

\* C1: on exit code 0 with non-blank stdout, the text handed to json.loads is
\* the suffix of the stripped stdout that starts at the earliest '{' or '[',
\* whichever comes first; so a preamble with neither character followed by
\* one JSON object or array decodes to exactly that value.
C1_DecodesFromFirstStart ==
    (CallEnded /\ rc = 0 /\ Strip(stdout) # <<>> /\ HasStart(stdout)) =>
        /\ loads
        /\ json_str = SliceFrom(Strip(stdout), FirstOfEither(Strip(stdout)))
        /\ (/\ method = "step"
            /\ ~HasStart(guestOut)
            /\ Tag(guestResult) \in {"obj", "arr"}
            /\ stdout = guestOut \o Stringify(guestResult))
           => outcome = Outcome("Return", guestResult)

\* C2: a rollout whose driver exits 0 with a JSON array of length 3 on stdout
\* returns the tuple of the array's three elements, in order.
C2_RolloutReturnsTriple ==
    (/\ CallEnded
     /\ method = "rollout"
     /\ rc = 0
     /\ Loads(stdout).ok
     /\ Tag(Loads(stdout).v) = "arr"
     /\ Len(Payload(Loads(stdout).v)) = 3)
    => outcome = Outcome("Return", <<"tuple", Payload(Loads(stdout).v)>>)

\* the lines of the error channel that start with '{', as the mapper sees them
ErrLines == SplitLines(Strip(stderr))
RECURSIVE LastRecordIndex(_, _)
LastRecordIndex(lines, i) ==
    IF i = 0 THEN 0
    ELSE IF StartsWith(Strip(lines[i]), LBrace) THEN i
    ELSE LastRecordIndex(lines, i - 1)
HasRecordLine == LET lines == ErrLines IN LastRecordIndex(lines, Len(lines)) # 0
LastRecordLine == LET lines == ErrLines IN Strip(lines[LastRecordIndex(lines, Len(lines))])
HasMember(v, key) == \E i \in 1..Len(Payload(v)) : Payload(v)[i][1] = key

\* C3 as claimed: after a non-zero exit with a line starting with '{' on the
\* error channel, the call raises RemoteMethodFailed carrying the message
\* decoded from the last such line.
C3_MessageOfLastRecordLine ==
    (CallEnded /\ rc # 0 /\ HasRecordLine) =>
        LET d == Loads(LastRecordLine)
        IN /\ d.ok
           /\ HasMember(d.v, ErrorKey)
           /\ outcome = Outcome("RemoteMethodFailed", Get(d.v, ErrorKey, UnknownError))

\* C3 amended: the last line starting with '{' decides alone, whatever
\* precedes it: its "error" member is the message when it decodes, "Unknown
\* error" when it decodes without that member, and the whole error text is
\* the message when it does not decode.
C3_LastRecordLineDecides ==
    (CallEnded /\ rc # 0 /\ HasRecordLine) =>
        LET d == Loads(LastRecordLine)
        IN outcome = IF d.ok
                     THEN Outcome("RemoteMethodFailed", Get(d.v, ErrorKey, UnknownError))
                     ELSE Outcome("RemoteMethodFailed", Raw(stderr))

\* a diagnostic line, then the driver's record: the message is the record's
C3_Witness ==
    /\ CallEnded
    /\ rc = 1
    /\ diagLog = << <<"LOG", <<LBrace, "note", RBrace>>>> >>
    /\ thrown = ErrorObject(<<"boom">>)
    /\ outcome = Outcome("RemoteMethodFailed", Str(<<"boom">>))

\* C4: once a call has ended, on whichever path, its driver script is gone
\* (and while the driver runs, the script of this call is the only one).
C4_ScriptRemoved ==
    /\ (pc = "idle" => tmpFiles = {})
    /\ (pc = "waiting" => tmpFiles = {ScriptFile})

\* a call that wrote its script and then failed to decode the output
C4_Witness ==
    /\ pc = "idle"
    /\ nodeCount = 1
    /\ outcome.kind \in {"DecodeError", "LaunchError"}
    /\ tmpFiles = {}

ConsoleOnly == emits = Len(diagLog)

\* whether every line of the text starts with a severity tag
Tags == {"WARN", "LOG", "INFO", "ERROR"}
Tagged(line) ==
    /\ Len(line) >= 4
    /\ line[1] = LBrack
    /\ line[2] \in Tags
    /\ line[3] = RBrack
    /\ line[4] = SP
AllLinesTagged(t) ==
    t = <<>> \/ (/\ t[Len(t)] = NL
                 /\ \A i \in 1..Len(SplitLines(SubSeq(t, 1, Len(t) - 1))) :
                      Tagged(SplitLines(SubSeq(t, 1, Len(t) - 1))[i]))

\* what the driver itself wrote to stdout: the payload, once the method
\* has resolved to a value that serializes
PayloadText ==
    IF Tag(guestResult) \in {"num", "str", "arr", "obj"} /\ dpc # "stringify"
    THEN Stringify(guestResult) ELSE <<>>

\* what the same call returns when the guest makes no console call at all
QuietOutcome ==
    CallerOutcome(method, OnDriverExit(0, guestOut \o PayloadText, <<>>).out)

RECURSIVE ConsoleRecords(_)
ConsoleRecords(log) ==
    IF log = <<>> THEN <<>>
    ELSE ConsoleLine(Head(log)[1], Head(log)[2]) \o ConsoleRecords(Tail(log))

C8_ThrowWritesRecord ==
    /\ (dpc = "exited" /\ thrown # NoThrow) =>
          /\ rc # 0
          /\ stdout = guestOut
          /\ HasRecordLine
          /\ LastRecordLine = Strip(ErrLines[Len(ErrLines)])
          /\ Loads(LastRecordLine).ok
    /\ (stdout # guestOut => rc = 0)

\* C9 as claimed: a value is returned only after exit code 0, and a non-zero
\* exit raises RemoteMethodFailed without json.loads touching stdout.
C9_NonZeroNeverDecodesStdout ==
    /\ (CallEnded /\ outcome.kind = "Return") => rc = 0
    /\ (CallEnded /\ rc # 0) => (outcome.kind = "RemoteMethodFailed" /\ ~loads)

\* C9 amended: a value is returned only after exit code 0; a non-zero exit
\* raises RemoteMethodFailed, and stdout plays no part in it unless stderr
\* is empty, in which case the text of stdout stands in as the error text
\* and is scanned for an error record.
C9_NonZeroRaises ==
    /\ (CallEnded /\ outcome.kind = "Return") => rc = 0
    /\ (CallEnded /\ rc # 0) =>
          /\ outcome.kind = "RemoteMethodFailed"
          /\ stderr # <<>> => (~loads /\ outcome = OnExitNonZero(<<>>, stderr))
          /\ stderr = <<>> => outcome = OnExitNonZero(<<>>, stdout)

\* a non-zero exit with a decodable payload on stdout
C9_Witness ==
    /\ CallEnded
    /\ rc = 1
    /\ stderr # <<>>
    /\ Loads(Strip(stdout)).ok
    /\ outcome.kind = "RemoteMethodFailed"

\* C10: on exit code 0, a blank stdout raises NoPayload and a non-blank
\* stdout with neither '{' nor '[' raises PayloadNotFound; json.loads is not
\* called in either case.
C10_BlankAndNoStart ==
    (CallEnded /\ rc = 0) =>
        /\ Strip(stdout) = <<>> => (outcome.kind = "NoPayload" /\ ~loads)
        /\ (Strip(stdout) # <<>> /\ ~HasStart(stdout)) =>
              (outcome.kind = "PayloadNotFound" /\ ~loads)

\* text on stdout, but neither '{' nor '['
C10_Witness ==
    /\ CallEnded
    /\ rc = 0
    /\ stdout = <<"banner", SP, Digit>>
    /\ outcome.kind = "PayloadNotFound"

\* only whitespace on stdout
C10_WitnessBlank ==
    /\ CallEnded
    /\ rc = 0
    /\ stdout = <<NL>>
    /\ outcome.kind = "NoPayload"


\* whether some line of the text starts with '{', as the mapper sees it
HasRecordLineIn(t) ==
    LET lines == SplitLines(Strip(t)) IN LastRecordIndex(lines, Len(lines)) # 0

\* C11 as claimed: after a non-zero exit with no line starting with '{' on
\* the error channel, the call raises RemoteMethodFailed carrying the full
\* raw text of stderr.
C11_RawStderrWhenNoRecord ==
    (CallEnded /\ rc # 0 /\ ~HasRecordLineIn(stderr)) =>
        outcome = Outcome("RemoteMethodFailed", Raw(stderr))

\* C11 amended: with no line starting with '{' in the error text, the
\* message is the full raw error text, where the error text is stderr when
\* stderr is not empty and stdout otherwise.
C11_RawErrorTextWhenNoRecord ==
    (CallEnded /\ rc # 0) =>
        /\ (stderr # <<>> /\ ~HasRecordLineIn(stderr)) =>
              outcome = Outcome("RemoteMethodFailed", Raw(stderr))
        /\ (stderr = <<>> /\ ~HasRecordLineIn(stdout)) =>
              outcome = Outcome("RemoteMethodFailed", Raw(stdout))

\* the guest wrote a plain line to stderr and ended the process with code 1
C11_Witness ==
    /\ CallEnded
    /\ rc = 1
    /\ stderr = <<"banner", NL>>
    /\ outcome = Outcome("RemoteMethodFailed", Raw(<<"banner", NL>>))


\* build processes the current or last call of _call_ts_method started
BuildsInCall ==
    IF \E i \in 1..Len(ensured.probes) : ensured.probes[i] = "run build" THEN 1 ELSE 0

\* C12 as claimed: a bridged call performs at most one subprocess invocation.
C12_AtMostOneSubprocess ==
    (pc = "idle" /\ method \in Methods) => nodeCount + BuildsInCall <= 1

\* C12 amended: a bridged call launches the driver at most once, besides
\* the build process its compiling step may start first; any failure of the
\* driver run (non-zero exit, NoPayload, PayloadNotFound, DecodeError) ends
\* the call with that failure and no further launch.
C12_OneDriverRunNoRetry ==
    /\ nodeCount <= 1
    /\ CallEnded => (nodeCount = 1 /\ outcome # NoOutcome)

\* a call that built the environment, ran the driver and failed to decode
C12_Witness ==
    /\ CallEnded
    /\ BuildsInCall = 1
    /\ nodeCount = 1
    /\ outcome.kind = "DecodeError"


\* an evaluate call has returned a value
EvaluateReturned == pc = "idle" /\ method = "evaluate" /\ outcome.kind = "Return"

\* the message sequences under a field of the data, none when the field is
\* absent or no list
SequencesOf(data, key) ==
    IF HasKey(data, key) /\ IsList(Get(Obj(data), key, Undefined))
    THEN Payload(Get(Obj(data), key, Undefined))
    ELSE <<>>

\* the tool invocations of a message, none when it has no list of them
CallsOf(msg) ==
    IF IsDict(msg) /\ HasKey(Payload(msg), ToolCallsKey)
                   /\ IsList(Get(msg, ToolCallsKey, Undefined))
    THEN Payload(Get(msg, ToolCallsKey, Undefined))
    ELSE <<>>

MessagesOf(sequence) == IF IsList(sequence) THEN Payload(sequence) ELSE <<>>

WellShapedCall(tc) ==
    /\ IsDict(tc)
    /\ HasKey(Payload(tc), TypeKey)
    /\ IsStr(Get(tc, TypeKey, Undefined))
    /\ HasKey(Payload(tc), FunctionKey)
    /\ LET func == Get(tc, FunctionKey, Undefined)
       IN /\ IsDict(func)
          /\ HasKey(Payload(func), NameKey)
          /\ IsStr(Get(func, NameKey, Undefined))
          /\ HasKey(Payload(func), ArgumentsKey)
          /\ IsStr(Get(func, ArgumentsKey, Undefined))

AllCallsWellShaped(data) ==
    \A key \in {PromptKey, CompletionKey} :
      \A i \in 1..Len(SequencesOf(data, key)) :
        LET msgs == MessagesOf(SequencesOf(data, key)[i])
        IN \A j \in 1..Len(msgs) :
             \A k \in 1..Len(CallsOf(msgs[j])) : WellShapedCall(CallsOf(msgs[j])[k])

\* the first tool invocation of the first message of the first completion
\* sequence, as the guest emitted it and as the call returned it
FirstCall(data) ==
    LET seqs == SequencesOf(data, CompletionKey)
    IN IF seqs = <<>> \/ MessagesOf(seqs[1]) = <<>> THEN Undefined
       ELSE IF CallsOf(MessagesOf(seqs[1])[1]) = <<>> THEN Undefined
       ELSE CallsOf(MessagesOf(seqs[1])[1])[1]
GuestCall == IF IsDict(guestResult) THEN FirstCall(Payload(guestResult)) ELSE Undefined
ReturnedCall == FirstCall(Payload(outcome.val))

\* a tool invocation with exactly the given type, name and arguments
IsCall(tc, type, name, arguments) ==
    /\ IsDict(tc)
    /\ Len(Payload(tc)) = 2
    /\ Get(tc, TypeKey, Undefined) = Str(type)
    /\ LET func == Get(tc, FunctionKey, Undefined)
       IN /\ IsDict(func)
          /\ Len(Payload(func)) = 2
          /\ Get(func, NameKey, Undefined) = Str(name)
          /\ Get(func, ArgumentsKey, Undefined) = Str(arguments)

\* C13: in the value a successful evaluate returns, every tool invocation of
\* every message of every prompt and completion sequence has a string type,
\* a function mapping with a string name and string arguments; and
\* {function: {name: "f"}} has become
\* {type: "function", function: {name: "f", arguments: "{}"}}.
C13_ToolCallsWellShaped ==
    EvaluateReturned =>
        /\ AllCallsWellShaped(Payload(outcome.val))
        /\ GuestCall = Obj(<< <<FunctionKey, NamedF>> >>) =>
             IsCall(ReturnedCall, <<"function">>, <<"f">>, <<LBrace, RBrace>>)

\* C14 as claimed: a tool invocation that is no mapping comes out as
\* {type: "function", function: {name: "unknown_tool", arguments: "{}"}}.
C14_ScalarBecomesUnknownTool ==
    (EvaluateReturned /\ typesImported /\ GuestCall # Undefined /\ ~IsDict(GuestCall)) =>
        IsCall(ReturnedCall, <<"function">>, <<"unknown_tool">>, <<LBrace, RBrace>>)

\* C14 amended: a tool invocation that is no mapping comes out as
\* {type: "function", function: {name: str(value), arguments: "{}"}}: the
\* scalar "x" gets the name "x", the number 1 the name "1".
C14_ScalarBecomesItsName ==
    (EvaluateReturned /\ typesImported /\ GuestCall # Undefined /\ ~IsDict(GuestCall)) =>
        /\ IsCall(ReturnedCall, <<"function">>, PyStr(GuestCall), <<LBrace, RBrace>>)
        /\ GuestCall = Str(<<"x">>) =>
             IsCall(ReturnedCall, <<"function">>, <<"x">>, <<LBrace, RBrace>>)
        /\ GuestCall = One =>
             IsCall(ReturnedCall, <<"function">>, <<Digit>>, <<LBrace, RBrace>>)

\* the scalar "x" went through the normalizer
C14_Witness ==
    /\ EvaluateReturned
    /\ typesImported
    /\ GuestCall = Str(<<"x">>)
    /\ IsCall(ReturnedCall, <<"function">>, <<"x">>, <<LBrace, RBrace>>)

\* the data json.loads gave the last call
Decoded == Loads(json_str).v

\* C15: normalizing a normalized message sequence changes nothing, for the
\* sequences the guest emitted and for those the call returned.
C15_NormalizeIdempotent ==
    (pc = "idle" /\ method = "evaluate" /\ loads /\ Loads(json_str).ok /\ IsDict(Decoded)) =>
        \A key \in {PromptKey, CompletionKey} :
          /\ \A i \in 1..Len(SequencesOf(Payload(Decoded), key)) :
               LET m == SequencesOf(Payload(Decoded), key)[i]
               IN normalize_tool_calls_in_messages(normalize_tool_calls_in_messages(m))
                    = normalize_tool_calls_in_messages(m)
          /\ (EvaluateReturned /\ typesImported) =>
               \A i \in 1..Len(SequencesOf(Payload(outcome.val), key)) :
                 LET m == SequencesOf(Payload(outcome.val), key)[i]
                 IN normalize_tool_calls_in_messages(m) = m

\* a tool invocation with a type, a name and arguments of the wrong kinds
\* was normalized
C15_Witness ==
    /\ EvaluateReturned
    /\ typesImported
    /\ IsDict(GuestCall)
    /\ Get(GuestCall, TypeKey, Undefined) = One
    /\ Get(Get(ReturnedCall, FunctionKey, Undefined), ArgumentsKey, Undefined)
         = Str(<<LBrace, Quote, "a", Quote, Colon, SP, Digit, RBrace>>)

\* C16: whenever evaluate returns, the sequences under prompt and completion
\* of the returned value are the normalized sequences of the decoded data,
\* whether or not the result types were imported.
C16_NormalizationAlwaysApplied ==
    EvaluateReturned =>
        \A key \in {PromptKey, CompletionKey} :
          LET given == SequencesOf(Payload(Decoded), key)
              got == SequencesOf(Payload(outcome.val), key)
          IN /\ Len(got) = Len(given)
             /\ \A i \in 1..Len(given) : got[i] = normalize_tool_calls_in_messages(given[i])


\* C17: a first _ensure_compiled that finds dist returns and memoizes it
\* after that one lookup, without a build and whatever dist contains.
C17_ExistingDistReused ==
    [][(/\ pc = "idle"
        /\ compiled_path = NoPath
        /\ distExists
        /\ <<distExists', indexExists'>> = <<distExists, indexExists>>)
       => /\ compiled_path' = DistPath
          /\ ensured' = [pre |-> NoPath, ret |-> DistPath, probes |-> <<"exists dist">>]
          /\ buildCount' = buildCount]_vars

\* a dist without its entry file was taken: the call then stops at the
\* missing dist/index.js, and no build was run
C17_Witness ==
    /\ pc = "idle"
    /\ method \in Methods
    /\ ensured = [pre |-> NoPath, ret |-> DistPath, probes |-> <<"exists dist">>]
    /\ distExists
    /\ ~indexExists
    /\ buildCount = 0
    /\ outcome.kind = "IndexMissing"


\* C18: a build that exits 0 and leaves no dist/index.js makes the call fail
\* with BuildIncomplete; the path is not memoized and the call launches no
\* driver.
C18_IncompleteBuildFails ==
    [][(/\ buildCount' = buildCount + 1
        /\ Len(ensured'.probes) = 4
        /\ ~indexExists')
       => /\ outcome'.kind = "BuildIncomplete"
          /\ compiled_path' = NoPath
          /\ ensured'.ret = NoPath
          /\ nodeCount' = 0
          /\ pc' = "idle"]_vars

\* a build made dist without its entry file, inside a bridged call
C18_Witness ==
    /\ pc = "idle"
    /\ method \in Methods
    /\ outcome.kind = "BuildIncomplete"
    /\ Len(ensured.probes) = 4
    /\ compiled_path = NoPath
    /\ distExists
    /\ ~indexExists
    /\ nodeCount = 0

\* C19: a build that exits non-zero makes the call fail with BuildFailed,
\* whose message is what the build tool wrote to stderr or, stderr being
\* empty, to stdout; the path stays unset and the call launches no driver.
C19_FailedBuildFails ==
    buildError.raised =>
        /\ pc = "idle"
        /\ outcome.kind = "BuildFailed"
        /\ buildError.err # <<>> => outcome.val = Raw(buildError.err)
        /\ (buildError.err = <<>> /\ buildError.out # <<>>) =>
              outcome.val = Raw(buildError.out)
        /\ compiled_path = NoPath
        /\ ensured.ret = NoPath
        /\ nodeCount = 0

\* a failed build inside a bridged call, with text on stderr
C19_Witness ==
    /\ method \in Methods
    /\ buildError.raised
    /\ buildError.err = <<"tsc", "error">>
    /\ outcome = Outcome("BuildFailed", Raw(<<"tsc", "error">>))
    /\ nodeCount = 0


\* C20 as claimed: whatever the interleaving, _compiled_path is assigned at
\* most once over all concurrent calls.
C20_PathWrittenAtMostOnce ==
    /\ \A t \in Threads : threads[t].writes <= 1
    /\ Cardinality({t \in Threads : threads[t].writes > 0}) <= 1

\* C20 amended: each call assigns _compiled_path at most once and always
\* the one dist path, so the value never changes once set; a call that
\* found it set never assigns it.  (Calls that overlap before it is set
\* each assign it.)
C20_EachCallWritesOnce ==
    [][/\ compiled_path # NoPath => compiled_path' = compiled_path
       /\ compiled_path' \in {NoPath, DistPath}
       /\ \A t \in Threads :
            /\ threads'[t].writes <= 1
            /\ threads'[t].memo = "set" => threads'[t].writes = 0
            /\ threads'[t].writes = 1 => compiled_path' = DistPath]_vars

\* two overlapping calls both assigned the path, and both calls went on
C20_Witness ==
    /\ threads[1].writes = 1
    /\ threads[2].writes = 1
    /\ threads[1].pc = "done"
    /\ threads[2].pc = "done"
    /\ compiled_path = DistPath


\* a step of a remote call made on the idle wrapper (and not a change of
\* dist made from outside, which runs no build)
CallStep ==
    /\ pc = "idle"
    /\ method' \in Methods
    /\ ~(buildCount' = buildCount
         /\ <<distExists', indexExists'>> # <<distExists, indexExists>>)

\* C23: a call writes a driver script or starts node only if dist/index.js
\* was there when it looked; with dist/index.js missing the call raises
\* with no script written and no node started, whatever the builds before
\* it did.
C23_NoEntryFileNoDriver ==
    [][CallStep =>
         /\ (pc' = "waiting" \/ nodeCount' = 1 \/ tmpFiles' # tmpFiles) => indexExists'
         /\ ~indexExists' =>
              /\ pc' = "idle"
              /\ nodeCount' = 0
              /\ tmpFiles' = tmpFiles
              /\ outcome'.kind \in {"IndexMissing", "BuildIncomplete", "BuildFailed",
                                   "LaunchError"}]_vars

\* a build left dist without its entry file; the next call took that dist
\* and stopped at the missing dist/index.js
C23_Witness ==
    /\ pc = "idle"
    /\ method \in Methods
    /\ buildCount = 1
    /\ ensured = [pre |-> NoPath, ret |-> DistPath, probes |-> <<"exists dist">>]
    /\ ~indexExists
    /\ outcome.kind = "IndexMissing"
    /\ nodeCount = 0
    /\ tmpFiles = {}

\* C24: on a failed call in which the guest wrote through console only, the
\* message comes from the driver's own error record or is the raw stderr
\* text, never from a logged line.
C24_LoggedLineNeverTheRecord ==
    (CallEnded /\ rc # 0 /\ ConsoleOnly /\ diagLog # <<>>) =>
        \/ outcome = Outcome("RemoteMethodFailed", Raw(stderr))
        \/ /\ Tag(thrown) = "Error"
           /\ outcome = Outcome("RemoteMethodFailed", Str(Payload(thrown)))
        \/ /\ thrown = Primitive
           /\ outcome = Outcome("RemoteMethodFailed", UnknownError)

\* the directory a direct call of the bridge's load function looked in
DirectRoot ==
    IF host.called = "load_ts_environment" THEN host.env_dir_path ELSE DefaultEnvDir

DirectCall == host.called \in {"load_ts_environment", "bridge.load_environment"}

\* C21: load_ts_environment fails with ModuleNotFound when
\* env_dir_path/env_id does not exist, with EntryPointMissing when the
\* directory holds neither package.json nor src/index.ts, and otherwise
\* returns a wrapper for that directory; it runs no build and starts no
\* process, and the wrapper it returns has no build output resolved.
C21_LoadOutcomes ==
    DirectCall =>
        LET dir == <<DirectRoot, host.env_id>>
            there == dir \in DOMAIN host.fs /\ host.fs[dir].exists
            entry == there /\ host.fs[dir].files \cap {PackageJson, IndexTs} # {}
        IN /\ ~there => host.out.kind = "ModuleNotFound"
           /\ (there /\ ~entry) => host.out.kind = "EntryPointMissing"
           /\ entry =>
                /\ host.out.kind = "Return"
                /\ host.out.env.origin = "bridge"
                /\ host.out.env.env_path = dir
                /\ host.out.env.compiled_path = NoPath
           /\ buildCount = 0
           /\ nodeCount = 0
           /\ tmpFiles = {}
           /\ ~distExists

\* a directory with only src/index.ts was accepted
C21_Witness ==
    /\ host.called = "load_ts_environment"
    /\ host.env_dir_path = EnvsDir
    /\ host.env_id = MyUnderscoreEnv
    /\ host.fs[<<EnvsDir, MyUnderscoreEnv>>] = [exists |-> TRUE, files |-> {IndexTs}]
    /\ host.out.kind = "Return"
    /\ host.out.env.env_path = <<EnvsDir, MyUnderscoreEnv>>

\* the events of the host's call with the given name
EventsNamed(what) == {i \in 1..Len(host.events) : host.events[i][1] = what}

\* what the native path of the host's call did
NativeOf ==
    LET name == LastSegment(Replace(host.env_id, Hyphen, Underscore))
    IN IF \E m \in host.modules : m[1] = name
       THEN (CHOOSE m \in host.modules : m[1] = name)[2]
       ELSE "absent"

\* C22: the host's load_environment imports the native module first and
\* asks the bridge only after the native path raised ImportError; when the
\* native environment loads it is returned and the bridge is not asked; when
\* the native path raised ImportError and the bridge returns an environment,
\* that one is returned with env_id and env_args set; when the native path
\* raised ImportError and the bridge returns none, ValueError is raised.
C22_NativeFirstThenBridge ==
    host.called = "load_environment" =>
        LET asked == EventsNamed("import bridge")
            ts == LoadTsFallback(host.bridge, host.fs, host.env_id, host.env_dir_path,
                                 host.env_var, host.env_args)
            importFailed == NativeOf \in {"absent", "load raises ImportError"}
        IN /\ host.events[1][1] = "import_module"
           /\ asked # {} => (importFailed /\ \A i \in asked : i > 1)
           /\ NativeOf = "loads" =>
                /\ asked = {}
                /\ host.out.kind = "Return"
                /\ host.out.env.origin = "native"
           /\ (importFailed /\ ts.out.kind = "Return") =>
                /\ host.out.kind = "Return"
                /\ host.out.env.origin = "bridge"
                /\ host.out.env.env_id = host.env_id
                /\ host.out.env.env_args = host.env_args
           /\ (importFailed /\ ts.out.kind # "Return") =>
                host.out.kind \in ValueErrors

\* no native module, and the bridge found the environment's directory
C22_Witness ==
    /\ host.called = "load_environment"
    /\ host.modules = {}
    /\ Len(host.events) = 4
    /\ host.events[2][1] = "import bridge"
    /\ host.out.kind = "Return"
    /\ host.out.env.origin = "bridge"
    /\ host.out.env.env_id = MyHyphenEnv
    /\ host.out.env.env_args # <<>>

\* C25: when _load_ts_environment found a directory under one of its search
\* names, the load_ts_environment it then calls looks in that same
\* directory and does not fail with ModuleNotFound.
C25_FoundDirectoryIsLoaded ==
    (host.called = "load_environment" /\ EventsNamed("found") # {}) =>
        LET found == host.events[CHOOSE i \in EventsNamed("found") : TRUE]
        IN /\ host.out.kind # "ModuleNotFound"
           /\ \E i \in EventsNamed("load_ts_environment") :
                /\ host.events[i][2] = found[2]
                /\ host.events[i][3] = found[3]

\* how often a key occurs in an object
Occurrences(obj, key) ==
    Cardinality({i \in 1..Len(Payload(obj)) : Payload(obj)[i][1] = key})

\* the client's value when it has one, else the one among the extra keyword
\* arguments, else none
Resolved(mine, kwargs, key) ==
    IF Truthy(mine) THEN mine
    ELSE IF HasKey(kwargs, key) THEN Get(Obj(kwargs), key, Null) ELSE Null

\* C26: every rollout call reaches the driver, where the guest's rollout
\* receives the nine positional arguments in order and then one object in
\* which api_key and base_url each occur exactly once: the client's value
\* when it has one, else the one given as an extra keyword argument.
C26_RolloutReachesDriver ==
    rolloutCall.called =>
        LET got == rolloutCall.received
            given == rolloutCall.positional
            url == Resolved(rolloutCall.client.base_url, rolloutCall.kwargs, BaseUrlKey)
        IN /\ rolloutCall.kind = "Driver"
           /\ Len(got) = 10
           /\ \A i \in {1, 2, 3, 4, 6, 8} : got[i] = given[i]
           /\ \A i \in {5, 7, 9} : got[i] = IF given[i] = Null THEN Obj(<<>>) ELSE given[i]
           /\ IsDict(got[10])
           /\ Occurrences(got[10], ApiKeyKey) = 1
           /\ Occurrences(got[10], BaseUrlKey) = 1
           /\ Get(got[10], ApiKeyKey, Undefined)
                = Resolved(rolloutCall.client.api_key, rolloutCall.kwargs, ApiKeyKey)
           /\ Get(got[10], BaseUrlKey, Undefined)
                = IF Tag(url) = "url" THEN Str(Payload(url)) ELSE url

\* the text is one line holding one JSON value
OneJsonLine(t) ==
    /\ Len(t) > 0
    /\ t[Len(t)] = NL
    /\ \A i \in 1..(Len(t) - 1) : t[i] # NL
    /\ Loads(t).ok

\* a result on stdout and exit code 0
ResultOutcome ==
    /\ sandboxRun.rc = 0
    /\ OneJsonLine(sandboxRun.stdout)

\* an error record on stderr, exit code 1, nothing on stdout
ErrorOutcome ==
    /\ sandboxRun.rc = 1
    /\ sandboxRun.stdout = <<>>
    /\ OneJsonLine(sandboxRun.stderr)
    /\ LET record == Loads(sandboxRun.stderr).v
       IN /\ IsDict(record)
          /\ {Payload(record)[i][1] : i \in 1..Len(Payload(record))}
               = {ErrorKey, ErrorTypeKey}

\* the input is blank, is no JSON, names no known method, or is an execute
\* or delete request without sandbox_id, or an execute request without
\* command
Rejected(input) ==
    \/ \A i \in 1..Len(input) : input[i] \in Whitespace
    \/ ~Loads(input).ok
    \/ LET c == Loads(input).v
       IN /\ IsDict(c)
          /\ \/ ~HasKey(Payload(c), MethodKey)
             \/ Get(c, MethodKey, Null) \notin
                  {Str(<<"create">>), Str(<<"execute">>), Str(<<"delete">>)}
             \/ /\ Get(c, MethodKey, Null) \in {Str(<<"execute">>), Str(<<"delete">>)}
                /\ ~HasKey(Payload(c), SandboxIdKey)
             \/ /\ Get(c, MethodKey, Null) = Str(<<"execute">>)
                /\ ~HasKey(Payload(c), CommandKey)

\* C27: whatever arrives on stdin, a run of the sandbox bridge ends either
\* with one JSON result on stdout and exit code 0, or with one JSON error
\* record (error, error_type) on stderr, exit code 1 and nothing on stdout,
\* never both; blank input, malformed JSON, an unknown method, and execute
\* or delete without sandbox_id (or execute without command) end with the
\* error record and no client operation performed.
C27_ResultOrErrorRecord ==
    sandboxRun.pc = "exited" =>
        /\ ResultOutcome \/ ErrorOutcome
        /\ ~(ResultOutcome /\ ErrorOutcome)
        /\ Rejected(sandboxRun.stdin) => (ErrorOutcome /\ sandboxRun.ops = <<>>)

\* an execute request without command was refused while the client was
\* there and working
C27_Witness ==
    /\ sandboxRun.pc = "exited"
    /\ sandboxRun.available
    /\ sandboxRun.client = "ok"
    /\ Loads(sandboxRun.stdin).ok
    /\ IsDict(Loads(sandboxRun.stdin).v)
    /\ Get(Loads(sandboxRun.stdin).v, MethodKey, Null) = Str(<<"execute">>)
    /\ HasKey(Payload(Loads(sandboxRun.stdin).v), SandboxIdKey)
    /\ ~HasKey(Payload(Loads(sandboxRun.stdin).v), CommandKey)
    /\ sandboxRun.rc = 1
    /\ sandboxRun.ops = <<>>
    /\ Get(Loads(sandboxRun.stderr).v, ErrorTypeKey, Null) = Str(<<"ValueError">>)

====
